---- MODULE Spec2Model ----
(***************************************************************************)
(* Media pipeline of the Tesla video player: MP4Demuxer (mp4-demuxer.ts)   *)
(* and WebCodecsVideoPlayer (client/src/components).                       *)
(*                                                                         *)
(* One action of the model is one task of the browser's event loop: a user *)
(* event, a timer or animation-frame callback, a decoder callback, or the  *)
(* completion of a network read.  Promise continuations (microtasks) run   *)
(* inside the task that settles the promise, as they do in the browser.    *)
(* All times are integers in microseconds.                                 *)
(***************************************************************************)
EXTENDS Integers, Sequences, FiniteSets, TLC

VARIABLES
  media,    \* the media resource being played (fixed during a behaviour)
  ref,      \* the useRef fields of WebCodecsVideoPlayer
  ui,       \* the useState observables (PlayerState)
  vdemux,   \* the video MP4Demuxer
  ademux,   \* the audio MP4Demuxer
  vdec,     \* the VideoDecoder
  adec,     \* the AudioDecoder
  tasks,    \* suspended async functions and scheduled callbacks
  env,      \* clocks, audio context, mount state, event budgets
  hist,     \* history of what happened, read by the properties only
  sel,      \* a frame buffer with a selector, for the selection functions
  canvasPlayer, \* the CanvasVideoPlayer component
  streamPlayer  \* the streaming-audio player: its audio scheduling, or its
                \* frame buffer refill

vars == <<media, ref, ui, vdemux, ademux, vdec, adec, tasks, env, hist, sel,
          canvasPlayer, streamPlayer>>

-----------------------------------------------------------------------------
(* Program constants                                                       *)

FRAME_BUFFER_TARGET_SIZE == 60
FRAME_BUFFER_MAX_SIZE == 120
FRAME_DROP_THRESHOLD == 300000
VIDEO_FILL_INTERVAL == 50
MIN_FRAMES_BEFORE_PLAY == 20
maxBufferAttempts == 50
PRESENT_TOLERANCE == 16000
SAMPLE_BUFFER_TARGET_SIZE == 50
AudioQueueSpace == 50     \* preDecodeAllAudio waits while decodeQueueSize > 50
maxChunks == 10000        \* preDecodeAllAudio submits at most 10000 chunks
AUDIO_STREAM_TYPE == 0
VIDEO_STREAM_TYPE == 1

(* Bounds of the model                                                     *)

MaxSeeks == 2          \* handleSeek events in one behaviour
MaxToggles == 3        \* togglePlayPause events in one behaviour
MaxAdvances == 2       \* clock advances in one behaviour
MaxWaits == 1          \* 100 ms waits of one play() before frames arrive
GopLen == 12           \* distance between sync samples
ShortLen == 24         \* samples of the short streams
MidLen == 90           \* samples of the medium stream
LongLen == 140         \* samples of the long stream
Quantum == 40000       \* microseconds between two animation frames
ShortAudio == 2        \* samples of the short audio tracks
LongAudio == 53        \* samples of the long audio track
LongStep == 1000000    \* microseconds between animation frames of a slow page
CanvasDuration == 3     \* length of the video CanvasVideoPlayer plays, in steps
CanvasToggles == 3      \* togglePlayPause events of CanvasVideoPlayer
CanvasSeeks == 1        \* handleSeek events of CanvasVideoPlayer
StreamChunks == 4      \* AudioData objects the streaming player's decoder outputs
StreamToggles == 3     \* togglePlayPause events of the streaming player
StreamAdvances == 3    \* advances of the streaming player's audio clock
ChunkDur == 20000      \* microseconds of audio in one AudioData
SelFrames == 5         \* frames decoded into the buffer of a selector
SelGap == 10           \* animation frames in a long gap between two frames
SelHorizon == 24       \* animation frames until the clock of a selector stops

NoSample == -1
NoTime == -1

Min(a, b) == IF a < b THEN a ELSE b
Max(a, b) == IF a > b THEN a ELSE b
Abs(a) == IF a < 0 THEN -a ELSE a

-----------------------------------------------------------------------------
(* The media resource.  Sample i of the video track has composition time   *)
(* i * frameDur; it is a sync sample when KeyAt(i).                        *)

KeyAt(i) == i >= media.firstKey /\ (i - media.firstKey) % media.gop = 0

Cts(i) == i * media.frameDur

\* MP4File.seek(time, useRap = true): the sync sample at or before the
\* sample that covers `time`; the first sample when none precedes it.
RECURSIVE SyncAtOrBefore(_)
SyncAtOrBefore(i) ==
  IF i <= 0 THEN 0 ELSE IF KeyAt(i) THEN i ELSE SyncAtOrBefore(i - 1)

SeekSample(t) == SyncAtOrBefore(Min(media.n - 1, t \div media.frameDur))

-----------------------------------------------------------------------------
(* MP4Demuxer                                                              *)

NewDemuxer(streamType) ==
  [ streamType   |-> streamType,
    phase        |-> "new",      \* position of initialize()/fetchAndParse()
    file         |-> FALSE,      \* this.file created
    info         |-> FALSE,
    infoResolver |-> FALSE,
    selected     |-> FALSE,      \* this.selectedTrack # null
    readySamples |-> <<>>,
    pendingRead  |-> FALSE,      \* this.pendingReadResolver # null
    isEOF        |-> FALSE,
    started      |-> FALSE,      \* MP4File sample processing started
    next         |-> 0,          \* MP4File: next sample to extract
    avail        |-> 0,          \* samples whose bytes have been appended
    hdrReads     |-> 0,          \* network reads consumed by the header
    netDone      |-> FALSE,      \* reader.read() has reported done
    aborted      |-> FALSE,      \* fetchAbortController aborted
    handoff      |-> NoSample ]  \* sample given to the pending reader

HasTrack(streamType) ==
  IF streamType = AUDIO_STREAM_TYPE THEN media.hasAudio ELSE media.hasVideo

\* The number of samples of the track a demuxer extracts
TrackLen(streamType) ==
  IF streamType = AUDIO_STREAM_TYPE THEN media.an ELSE media.n

\* (a demuxer that gives a pending reader the newest sample it holds)
OnSamplesNewest(d, samples) ==
  LET rs == d.readySamples \o samples
      d1 == [d EXCEPT !.readySamples = rs,
                      !.started = IF Len(rs) >= SAMPLE_BUFFER_TARGET_SIZE
                                  THEN FALSE ELSE @]
  IN  IF d1.pendingRead /\ Len(rs) > 0
      THEN [d1 EXCEPT !.handoff = rs[Len(rs)],
                      !.readySamples = SubSeq(rs, 1, Len(rs) - 1),
                      !.pendingRead = FALSE]
      ELSE d1

\* MP4Demuxer.onSamples
OnSamples(d, samples) ==
  LET rs == d.readySamples \o samples
      d1 == [d EXCEPT !.readySamples = rs,
                      !.started = IF Len(rs) >= SAMPLE_BUFFER_TARGET_SIZE
                                  THEN FALSE ELSE @]
  IN  IF d1.pendingRead /\ Len(rs) > 0
      THEN [d1 EXCEPT !.handoff = Head(rs),
                      !.readySamples = Tail(rs),
                      !.pendingRead = FALSE]
      ELSE d1

\* MP4File sample processing: while started, every appended sample of the
\* extracted track is handed to onSamples, a batch at a time.
RECURSIVE ProcessSamples(_)
ProcessSamples(d) ==
  IF d.file /\ d.started /\ d.selected /\ d.next < d.avail
  THEN LET k == Min(media.batch, d.avail - d.next)
           samples == [i \in 1..k |-> d.next + i - 1]
       IN  ProcessSamples(OnSamples([d EXCEPT !.next = @ + k], samples))
  ELSE d

\* MP4File.start()
FileStart(d) == IF d.file THEN ProcessSamples([d EXCEPT !.started = TRUE]) ELSE d

\* MP4File.stop()
FileStop(d) == [d EXCEPT !.started = FALSE]

\* MP4Demuxer.initialize up to the first await (the fetch)
DemuxInitialize(d) ==
  [d EXCEPT !.readySamples = <<>>, !.pendingRead = FALSE, !.isEOF = FALSE,
            !.file = TRUE, !.phase = "fetch"]

\* fetch() settles: the response is ok or not
DemuxFetched(d, ok) ==
  IF ok THEN [d EXCEPT !.phase = "header", !.infoResolver = TRUE]
        ELSE [d EXCEPT !.phase = "failed"]

\* file.onReady
OnReady(d) ==
  LET d1 == [d EXCEPT !.info = TRUE]
      d2 == IF HasTrack(d.streamType) /\ ~d1.selected
            THEN FileStart([d1 EXCEPT !.selected = TRUE])
            ELSE d1
  IN  [d2 EXCEPT !.infoResolver = FALSE]

\* processChunk: one reader.read() before the track metadata is known.
\* The stream ends here when it holds no (complete) moov box.
ProcessChunk(d) ==
  IF ~media.hasMoov /\ d.hdrReads >= media.hdrReads
  THEN \* done: flush, isEOF; fetchAndParse then awaits infoPromise
       [d EXCEPT !.isEOF = TRUE, !.phase = "awaitInfo"]
  ELSE IF d.hdrReads + 1 < media.hdrReads \/ ~media.hasMoov
  THEN [d EXCEPT !.hdrReads = @ + 1]
  ELSE LET d1 == OnReady([d EXCEPT !.hdrReads = @ + 1])
       IN  \* infoPromise resolved; continueReading starts; initialize
           \* returns or throws "No ... track found"
           [d1 EXCEPT !.phase = IF d1.selected THEN "ready" ELSE "noTrack"]

\* continueReading: one reader.read() after the track metadata is known
ContinueReading(d, inc) ==
  IF d.avail >= TrackLen(d.streamType)
  THEN LET d1 == [d EXCEPT !.isEOF = TRUE, !.netDone = TRUE]
       IN  IF d1.selected THEN FileStart(ProcessSamples(d1)) ELSE d1
  ELSE LET d1 == ProcessSamples(
                   [d EXCEPT !.avail = Min(TrackLen(d.streamType), @ + inc)])
       IN  IF d1.selected THEN FileStart(d1) ELSE d1

Reading(d) == d.phase \in {"ready", "noTrack"} /\ ~d.aborted /\ ~d.netDone

\* (a seek that keeps the samples already extracted)
DemuxSeekKeepsSamples(d, t) ==
  IF ~d.file THEN d
  ELSE FileStart([d EXCEPT !.next = SeekSample(t)])

\* MP4Demuxer.seek
DemuxSeek(d, t) ==
  IF ~d.file THEN d
  ELSE FileStart([d EXCEPT !.readySamples = <<>>, !.next = SeekSample(t)])

\* MP4Demuxer.stop
DemuxStop(d) == [FileStop(d) EXCEPT !.aborted = TRUE]

-----------------------------------------------------------------------------
(* The state of the whole program as one record, so that a handler and the *)
(* continuations it triggers compose as functions.                         *)

World ==
  [ r |-> ref, u |-> ui, vd |-> vdemux, ad |-> ademux, dec |-> vdec,
    adc |-> adec, t |-> tasks, e |-> env, h |-> hist ]

Commit(w) ==
  /\ ref' = w.r /\ ui' = w.u /\ vdemux' = w.vd /\ ademux' = w.ad
  /\ vdec' = w.dec /\ adec' = w.adc
  /\ tasks' = w.t /\ env' = w.e /\ hist' = w.h
  /\ UNCHANGED <<media, sel, canvasPlayer, streamPlayer>>

\* Who awaits the running fillFrameBuffer invocation
NoCaller == [kind |-> "none", id |-> 0, wasPlaying |-> FALSE]
InitCaller == [kind |-> "init", id |-> 0, wasPlaying |-> FALSE]
SeekCaller(wasPlaying) == [kind |-> "seek", id |-> 0, wasPlaying |-> wasPlaying]
PlayCaller(id) == [kind |-> "play", id |-> id, wasPlaying |-> FALSE]

PlayRec(id, pc, attempts) == [id |-> id, pc |-> pc, attempts |-> attempts]

PlayOf(w, id) == CHOOSE p \in w.t.plays : p.id = id

SetPlay(w, id, pc, attempts) ==
  [w EXCEPT !.t.plays =
     {p \in @ : p.id # id} \cup {PlayRec(id, pc, attempts)}]

DropPlay(w, id) == [w EXCEPT !.t.plays = {p \in @ : p.id # id}]

-----------------------------------------------------------------------------
(* VideoDecoder                                                            *)

\* Whether videoDecoder.decode(chunk) throws: the decoder is not configured,
\* or it requires a key chunk (after configure) and is given a delta chunk
DecodeThrows(dec, s) ==
  dec.state # "configured" \/ (dec.keyRequired /\ ~KeyAt(s))

\* A chunk that fillFrameBuffer passes to decode() and the decoder rejects
Rejected(w, s) ==
  [w EXCEPT !.r.needsKeyframe = FALSE,
            !.h.firstAfterReset =
               IF w.h.awaitingFirst /\ w.dec.state = "configured"
               THEN "delta" ELSE @,
            !.h.awaitingFirst =
               IF w.dec.state = "configured" THEN FALSE ELSE @]

\* videoDecoder.decode(chunk) for each chunk of a non-empty sequence: the
\* chunks join the decode queue
Decode(w, chunks) ==
  [w EXCEPT !.dec.queue = @ \o chunks,
            !.dec.keyRequired = FALSE,
            !.h.vsubmitted = @ + Len(chunks),
            !.h.firstAfterReset =
               IF w.h.awaitingFirst
               THEN (IF KeyAt(chunks[1]) THEN "key" ELSE "delta") ELSE @,
            !.h.awaitingFirst = FALSE,
            !.h.submitted = TRUE,
            !.h.submittedAfterError = @ \/ w.h.videoError \/ w.h.audioError]

\* (an output callback that never evicts)
OutputCallbackUnbounded(r, ts) == [r EXCEPT !.frameBuffer = Append(@, ts)]

\* (an output callback that puts the new frame in front)
OutputCallbackInFront(r, ts) == [r EXCEPT !.frameBuffer = <<ts>> \o @]

\* The output callback given to new VideoDecoder
OutputCallback(r, ts) ==
  LET evict == Len(r.frameBuffer) >= FRAME_BUFFER_MAX_SIZE
      kept == IF evict THEN Tail(r.frameBuffer) ELSE r.frameBuffer
  IN  [r EXCEPT !.frameBuffer = Append(kept, ts),
                !.droppedFrames = IF evict THEN @ + 1 ELSE @]

-----------------------------------------------------------------------------
(* requestAnimationFrame / cancelAnimationFrame                            *)

RequestFrame(w) ==
  [w EXCEPT !.r.animationFrame = TRUE,
            !.t.rafs = @ + 1, !.t.rafCur = TRUE,
            !.h.tickAfterCleanup = @ \/ w.r.isCleanedUp]

CancelFrame(w) ==
  IF w.r.animationFrame
  THEN [w EXCEPT !.r.animationFrame = FALSE,
                 !.t.rafs = IF w.t.rafCur THEN @ - 1 ELSE @,
                 !.t.rafCur = FALSE]
  ELSE w

-----------------------------------------------------------------------------
(* Audio of the single-buffer player                                       *)

\* startAudioPlayback(offset)
StartAudioPlayback(w, offset) ==
  IF ~w.r.audioContext \/ w.r.fullAudioBuffer = NoTime THEN w
  ELSE LET clamped == Max(0, Min(offset, w.r.fullAudioBuffer)) IN
       [w EXCEPT !.r.audioSourceNode = TRUE,
                 !.r.audioStartTime = w.e.actxTime,
                 !.r.mediaTimeOffset = clamped]

\* stopAudioPlayback()
StopAudioPlayback(w) == [w EXCEPT !.r.audioSourceNode = FALSE]

\* The guards of preDecodeAllAudio
PreDecodeGuard(w) ==
  \/ w.r.audioFillInProgress \/ w.r.isCleanedUp
  \/ ~w.r.audioDemuxer \/ ~w.r.audioDecoder
  \/ w.adc.state = "closed"
  \/ w.r.audioReady

\* buildFullAudioBuffer(): the duration of the buffer, or null
BuildFullAudioBuffer(w) ==
  IF ~w.r.audioContext \/ media.audioDur = 0 THEN NoTime ELSE media.audioDur

-----------------------------------------------------------------------------
(* renderLoop                                                              *)

\* The media clock read by renderLoop
CurrentMediaTime(w) ==
  IF w.r.audioContext
  THEN w.r.mediaTimeOffset + (w.e.actxTime - w.r.audioStartTime)
  ELSE w.r.mediaStartTime + (w.e.now - w.r.playbackStartTime)

\* How many leading frames the drop loop removes
RECURSIVE DropCount(_, _, _)
DropCount(buffer, cmt, k) ==
  IF k < Len(buffer) - 1 /\ cmt - buffer[k + 1] > FRAME_DROP_THRESHOLD
  THEN DropCount(buffer, cmt, k + 1)
  ELSE k

\* (a render loop for which every buffered frame is due)
DueAlways(cmt, ts) == TRUE

\* Whether the first buffered frame is due
Due(cmt, ts) == cmt >= ts - PRESENT_TOLERANCE

\* canvasRef.current: the canvas element is rendered while the component
\* is mounted and shows no error view
Canvas(w) == w.e.canvas /\ w.u.error = "none"

\* (a render loop that leaves the buffering observable alone)
BufferingUnchanged(old, show, empty, fresh) == old

\* The buffering observable after a run of renderLoop: cleared when a frame
\* is selected, set when the buffer is empty, and left alone inside the
\* throttle window
Buffering(old, show, empty, fresh) ==
  IF show /\ fresh THEN FALSE
  ELSE IF ~show /\ empty /\ fresh THEN TRUE ELSE old

\* (a render loop that draws the selected frame whatever was drawn last)
SelectFrameRedraw(buffer, cmt, lastTs) ==
  LET k == DropCount(buffer, cmt, 0)
      buf == SubSeq(buffer, k + 1, Len(buffer))
      show == Len(buf) > 0 /\ Due(cmt, buf[1])
  IN  [dropped |-> k, buffer |-> buf, show |-> show, draw |-> show]

\* The frame selection of renderLoop: the frames very far behind the clock
\* are dropped, then the first frame is selected if it is due, and drawn
\* if it is not the frame drawn last
SelectFrame(buffer, cmt, lastTs) ==
  LET k == DropCount(buffer, cmt, 0)
      buf == SubSeq(buffer, k + 1, Len(buffer))
      show == Len(buf) > 0 /\ Due(cmt, buf[1])
  IN  [ dropped |-> k, buffer |-> buf, show |-> show,
        draw |-> show /\ buf[1] # lastTs ]

RenderLoop(w) ==
  IF ~w.r.isPlaying \/ ~Canvas(w) \/ ~w.r.canvasCtx THEN w
  ELSE
  LET now == w.e.now
      cmt == CurrentMediaTime(w)
      s == SelectFrame(w.r.frameBuffer, cmt, w.r.lastRenderedTimestamp)
      k == s.dropped
      buf == s.buffer
      show == s.show
      draw == s.draw
      last == IF draw THEN buf[1] ELSE w.r.lastRenderedTimestamp
      fresh == now - w.r.lastDebugUpdate > 100000
      w1 == [w EXCEPT
               !.r.frameBuffer = IF draw THEN Tail(buf) ELSE buf,
               !.r.droppedFrames = @ + k,
               !.r.lastRenderedTimestamp = last,
               !.r.lastDebugUpdate =
                  IF now - @ > 500000 THEN now ELSE @,
               !.u.currentTime = IF show /\ fresh THEN last ELSE @,
               !.u.buffering = Buffering(@, show, Len(buf) = 0, fresh),
               !.h.rendered = IF show THEN "shown"
                              ELSE IF Len(buf) = 0 THEN "empty" ELSE "early",
               !.h.renderedAt = now,
               !.h.stalled = @ \/ ( /\ Len(buf) = 0 /\ fresh
                                    /\ w.vd.avail < media.n
                                    /\ w.vd.next >= w.vd.avail
                                    /\ Len(w.vd.readySamples) = 0
                                    /\ Len(w.dec.queue) = 0 ),
               !.h.renderedLast = w.r.lastDebugUpdate,
               !.h.drawn = IF draw THEN buf[1] ELSE NoTime,
               !.h.drawBit = IF draw THEN ~@ ELSE @,
               !.h.seekFresh = FALSE,
               !.h.firstCmt = IF @ = NoTime THEN cmt ELSE @,
               !.h.firstDrawn = IF draw /\ @ = NoTime THEN buf[1] ELSE @]
  IN  RequestFrame(w1)

-----------------------------------------------------------------------------
(* chooseFrame                                                             *)

\* The binary search of chooseFrame for the frame closest to the target;
\* indexes count from 0 as in the source
RECURSIVE ClosestIndex(_, _, _, _, _, _)
ClosestIndex(buffer, target, left, right, bestIndex, bestDelta) ==
  IF left > right THEN bestIndex
  ELSE
  LET mid == (left + right) \div 2
      delta == Abs(target - buffer[mid + 1])
      bi == IF delta < bestDelta THEN mid ELSE bestIndex
      bd == IF delta < bestDelta THEN delta ELSE bestDelta
  IN  IF buffer[mid + 1] < target
      THEN ClosestIndex(buffer, target, mid + 1, right, bi, bd)
      ELSE IF buffer[mid + 1] > target
      THEN ClosestIndex(buffer, target, left, mid - 1, bi, bd)
      ELSE mid

\* chooseFrame of WebCodecsVideoPlayer: the frames before the closest one
\* are closed and removed, and the first remaining frame is returned
ChooseFrame(buffer, targetTimestamp) ==
  IF Len(buffer) = 0 THEN [buffer |-> buffer, frame |-> NoTime]
  ELSE
  LET bestIndex == ClosestIndex(buffer, targetTimestamp, 0, Len(buffer) - 1,
                                0, Abs(targetTimestamp - buffer[1]))
      rest == SubSeq(buffer, bestIndex + 1, Len(buffer))
  IN  [buffer |-> rest, frame |-> rest[1]]

\* The scan of the earlier chooseFrame: it walks the buffer while the
\* distance to the target shrinks
RECURSIVE ScanIndex(_, _, _, _, _)
ScanIndex(buffer, target, i, minTimeDelta, frameIndex) ==
  IF i >= Len(buffer) THEN frameIndex
  ELSE
  LET timeDelta == Abs(target - buffer[i + 1]) IN
  IF minTimeDelta = NoTime \/ timeDelta < minTimeDelta
  THEN ScanIndex(buffer, target, i + 1, timeDelta, i)
  ELSE frameIndex

\* chooseFrame of the earlier player
ChooseFrameScan(buffer, targetTimestamp) ==
  IF Len(buffer) = 0 THEN [buffer |-> buffer, frame |-> NoTime]
  ELSE
  LET frameIndex == ScanIndex(buffer, targetTimestamp, 0, NoTime, -1)
      rest == SubSeq(buffer, frameIndex + 1, Len(buffer))
  IN  IF frameIndex = -1 THEN [buffer |-> buffer, frame |-> NoTime]
      ELSE [buffer |-> rest, frame |-> rest[1]]

-----------------------------------------------------------------------------
(* startBufferIntervals, pause, and the last part of play                  *)

StartBufferIntervals(w) ==
  IF w.r.videoFillInterval THEN w
  ELSE [w EXCEPT !.r.videoFillInterval = TRUE,
                 !.h.tickAfterCleanup = @ \/ w.r.isCleanedUp]

StopBufferIntervals(w) == [w EXCEPT !.r.videoFillInterval = FALSE]

\* The position pause() saves
PausePosition(w) ==
  IF w.r.audioContext
  THEN w.r.mediaTimeOffset + (w.e.actxTime - w.r.audioStartTime)
  ELSE w.r.mediaStartTime + (w.e.now - w.r.playbackStartTime)

Pause(w) ==
  LET w1 == CancelFrame(StopBufferIntervals(
              [w EXCEPT !.r.isPlaying = FALSE, !.u.isPlaying = FALSE]))
      w2 == StopAudioPlayback([w1 EXCEPT !.r.mediaStartTime = PausePosition(w1)])
  IN  [w2 EXCEPT !.e.actxState =
         IF w2.r.audioContext /\ @ = "running" THEN "suspended" ELSE @,
         !.h.pausePos = IF w.r.isPlaying THEN w2.r.mediaStartTime ELSE NoTime,
         !.h.pauseAt = w2.t.nextPlayId,
         !.h.resumeCmt = NoTime]

\* Whether play() replaces the saved position by the first buffered
\* frame's timestamp
FirstFrameAdjust(offset, first) == offset = 0 \/ offset < first

\* play() from "Now set isPlayingRef after buffers are ready" to its end
PlayFinal(w, id) ==
  LET w0 == DropPlay(w, id)
      buffer == w0.r.frameBuffer
      startOffset == w0.r.mediaStartTime
      adjust == /\ w0.r.audioContext /\ Len(buffer) > 0
                /\ FirstFrameAdjust(startOffset, buffer[1])
      w1 == [w0 EXCEPT
               !.r.isPlaying = TRUE,
               !.r.audioStartTime = IF w0.r.audioContext THEN w0.e.actxTime ELSE @,
               !.r.mediaTimeOffset =
                  IF ~w0.r.audioContext THEN @
                  ELSE IF adjust THEN buffer[1] ELSE startOffset,
               !.r.mediaStartTime = IF adjust THEN buffer[1] ELSE @,
               !.r.playbackStartTime = w0.e.now]
      w2 == IF w1.r.fullAudioBuffer # NoTime
            THEN StartAudioPlayback(w1, w1.r.mediaTimeOffset) ELSE w1
      w3 == StartBufferIntervals(w2)
      w4 == [w3 EXCEPT !.u.buffering = FALSE,
                       !.h.seekPlayed =
                          IF w.h.seekTarget # NoTime /\ @ = NoTime
                             /\ w3.r.audioContext
                          THEN w3.r.mediaTimeOffset ELSE @,
                       !.h.rendered = "none",
                       !.h.seekFresh = FALSE,
                       !.h.resumeDue = FALSE,
                       !.h.resumeCmt =
                          IF w.h.pausePos # NoTime /\ id >= w.h.pauseAt
                          THEN CurrentMediaTime(w3) ELSE @]
  IN  RenderLoop(w4)

-----------------------------------------------------------------------------
(* fillFrameBuffer                                                         *)

\* The keyframe gate of the decode loop
KeyframeGate(needsKeyframe, isKey) == ~needsKeyframe \/ isKey

\* (a decode loop that admits half as many chunks again)
DecodeQueueLimitLoose == FRAME_BUFFER_TARGET_SIZE * 3

\* The decodeQueueSize at which the decode loop stops submitting
DecodeQueueLimit == FRAME_BUFFER_TARGET_SIZE * 2

FillGuard(w) ==
  \/ w.r.fillInProgress
  \/ w.r.isCleanedUp
  \/ Len(w.r.frameBuffer) >= FRAME_BUFFER_TARGET_SIZE
  \/ ~w.r.videoDemuxer \/ ~w.r.videoDecoder
  \/ w.dec.state = "closed"

LoopCond(w) ==
  /\ Len(w.r.frameBuffer) < FRAME_BUFFER_TARGET_SIZE
  /\ w.r.videoDecoder
  /\ w.dec.state # "closed"
  /\ Len(w.dec.queue) < DecodeQueueLimit

\* How many leading samples of rs the keyframe gate discards
Discarded(needsKeyframe, rs) ==
  LET Pass(i) == KeyframeGate(needsKeyframe, KeyAt(rs[i])) IN
  IF \E i \in 1..Len(rs) : Pass(i)
  THEN (CHOOSE i \in 1..Len(rs) : Pass(i) /\ \A j \in 1..(i - 1) : ~Pass(j)) - 1
  ELSE Len(rs)

\* videoDemuxer.getNextChunk() has returned the samples ss, one per turn
\* of the decode loop.  The history records whether each is the sample
\* after the one returned before it (any sample may follow a seek), and
\* whether the first one after a seek is the sample the seek positioned
\* the parser at.
Returned(w, ss) ==
  LET n == Len(ss)
      Before(i) == IF i = 1 THEN w.h.vnext - 1 ELSE ss[i - 1]
  IN  [w EXCEPT
         !.h.vinOrder =
            @ /\ \A i \in 1 .. n :
                   (i = 1 /\ w.h.vnext = NoSample) \/ ss[i] = Before(i) + 1,
         !.h.vnext = ss[n] + 1,
         !.h.vfirst = IF w.h.vseek THEN ss[1] ELSE @,
         !.h.vseek = FALSE,
         !.h.vcount = @ + n]

RECURSIVE FillFrameBuffer(_, _), FillLoop(_), FillChunk(_, _), FillFinish(_)
RECURSIVE FillReady(_)
RECURSIVE Continue(_, _), Play(_), PlayPreDecode(_, _), PlayPrebuffer(_, _, _)
RECURSIVE PlayAfterFill(_, _)
RECURSIVE PreDecodeLoop(_), PreDecodeNext(_), PreDecodeChunk(_, _)
RECURSIVE PreDecodeReady(_), PreDecodeFlush(_), PreDecodeEnd(_, _)
RECURSIVE PlayAfterPreDecode(_), Resume(_)

\* fillFrameBuffer(); its result carries in tasks.resume the caller whose
\* await has settled
FillFrameBuffer(w, caller) ==
  IF FillGuard(w) THEN [w EXCEPT !.t.resume = caller]
  ELSE FillLoop([w EXCEPT !.r.fillInProgress = TRUE,
                          !.t.fillCaller = caller,
                          !.h.loopRan = TRUE])

\* One turn of the while loop, up to the await of getNextChunk (readSample)
FillLoop(w) ==
  LET d == w.vd IN
  IF ~LoopCond(w) THEN FillFinish(w)
  ELSE IF ~w.r.videoDemuxer \/ ~d.selected
  THEN FillFinish(w)      \* the call throws; the catch block logs it
  ELSE IF Len(d.readySamples) > 0
  THEN IF ~w.r.isCleanedUp /\ w.dec.state = "configured"
       THEN FillReady(w)
       ELSE FillChunk([w EXCEPT !.vd.readySamples = Tail(@)],
                      Head(d.readySamples))
  ELSE IF d.isEOF
  THEN LET d1 == FileStart(d) IN
       IF Len(d1.readySamples) > 0
       THEN FillChunk([w EXCEPT !.vd = [d1 EXCEPT !.readySamples = Tail(@)]],
                      Head(d1.readySamples))
       ELSE FillFinish([w EXCEPT !.vd = d1])       \* null chunk: break
  ELSE LET d1 == FileStart([d EXCEPT !.pendingRead = TRUE]) IN
       IF d1.handoff # NoSample
       THEN FillChunk([w EXCEPT !.vd = [d1 EXCEPT !.handoff = NoSample]],
                      d1.handoff)
       ELSE [w EXCEPT !.vd = d1, !.t.fillPc = "await"]

\* The rest of the turn, once getNextChunk has resolved with sample s
FillChunk(w0, s) ==
  LET w == Returned(w0, <<s>>) IN
  IF w.r.isCleanedUp \/ ~w.r.videoDecoder \/ w.dec.state = "closed"
  THEN FillFinish([w EXCEPT !.h.vbroke = @ + 1])
  ELSE IF ~KeyframeGate(w.r.needsKeyframe, KeyAt(s))
  THEN FillLoop([w EXCEPT !.h.discarded = TRUE, !.h.vgated = @ + 1])
  ELSE IF DecodeThrows(w.dec, s)
  THEN \* the gate has been passed and cleared; decode() throws and the
       \* catch block logs it
       FillFinish(Rejected([w EXCEPT !.h.vsubmitted = @ + 1], s))
  ELSE FillLoop(Decode([w EXCEPT !.r.needsKeyframe = FALSE], <<s>>))

\* The turns of the loop that getNextChunk serves from readySamples without
\* suspending, with the decoder configured: the gate discards the leading
\* delta chunks, and the chunks after them are submitted until readySamples
\* is empty or the decode queue is full
FillReady(w) ==
  LET rs == w.vd.readySamples
      skip == Discarded(w.r.needsKeyframe, rs)
      room == DecodeQueueLimit - Len(w.dec.queue)
      take == Min(Len(rs) - skip, room)
      throws == take > 0 /\ DecodeThrows(w.dec, rs[skip + 1])
      w0 == Returned(w, SubSeq(rs, 1, IF throws THEN skip + 1 ELSE skip + take))
      w1 == [w0 EXCEPT !.vd.readySamples = SubSeq(rs, skip + take + 1, Len(rs)),
                       !.h.discarded = @ \/ skip > 0,
                       !.h.vgated = @ + skip]
  IN  IF throws
      THEN FillFinish(Rejected(
             [w1 EXCEPT !.vd.readySamples = SubSeq(rs, skip + 2, Len(rs)),
                        !.h.vsubmitted = @ + 1],
             rs[skip + 1]))
      ELSE FillLoop(IF take = 0 THEN w1
                    ELSE Decode([w1 EXCEPT !.r.needsKeyframe = FALSE],
                                SubSeq(rs, skip + 1, skip + take)))

FillFinish(w) ==
  [w EXCEPT !.r.fillInProgress = FALSE,
            !.t.fillPc = "idle",
            !.t.fillCaller = NoCaller,
            !.t.resume = w.t.fillCaller]

\* The code that awaits fillFrameBuffer() resumes
Continue(w, caller) ==
  CASE caller.kind = "init" -> [w EXCEPT !.t.init = "done"]
    [] caller.kind = "seek" -> IF caller.wasPlaying THEN Play(w) ELSE w
    [] caller.kind = "play" -> PlayAfterFill(w, caller.id)
    [] OTHER -> w

\* The caller of a fillFrameBuffer() that has returned resumes
Resume(w) ==
  IF w.t.resume = NoCaller THEN w
  ELSE Continue([w EXCEPT !.t.resume = NoCaller], w.t.resume)

\* play(): up to the await of audioContext.resume()
Play(w) ==
  IF w.r.isPlaying THEN w
  ELSE LET id == w.t.nextPlayId
           w1 == [w EXCEPT !.u.isPlaying = TRUE, !.u.buffering = TRUE,
                           !.h.rendered = "none",
                           !.t.nextPlayId = @ + 1]
       IN  IF w.r.audioContext /\ w.e.actxState = "suspended"
           THEN SetPlay(w1, id, "resume", 0)
           ELSE PlayPreDecode(w1, id)

\* play(): the await of preDecodeAllAudio()
PlayPreDecode(w, id) ==
  IF ~w.r.audioReady /\ w.r.audioDecoder /\ ~PreDecodeGuard(w)
  THEN PlayAfterPreDecode(
         PreDecodeLoop(SetPlay([w EXCEPT !.r.audioFillInProgress = TRUE,
                                         !.t.totalChunks = 0],
                               id, "predecode", 0)))
  ELSE PlayPrebuffer(w, id, 0)

\* preDecodeAllAudio: the head of a turn of its loop; the turn waits 10 ms
\* at a time while more than AudioQueueSpace chunks are in the decoder
PreDecodeLoop(w) ==
  IF w.t.totalChunks >= maxChunks THEN PreDecodeFlush(w)
  ELSE IF ~w.r.audioDecoder \/ w.adc.state = "closed" \/ w.r.isCleanedUp
  THEN PreDecodeFlush(w)
  ELSE IF w.adc.queue > AudioQueueSpace
  THEN [w EXCEPT !.t.apc = "wait"]
  ELSE PreDecodeNext(w)

\* preDecodeAllAudio: await audioDemuxer.getNextChunk()
PreDecodeNext(w) ==
  LET d == w.ad IN
  IF ~w.r.audioDemuxer \/ ~d.selected
  THEN PreDecodeEnd(w, FALSE)      \* the call throws
  ELSE IF Len(d.readySamples) > 0
  THEN IF w.r.audioDecoder /\ w.adc.state = "configured"
       THEN PreDecodeReady(w)
       ELSE PreDecodeChunk([w EXCEPT !.ad.readySamples = Tail(@)],
                           Head(d.readySamples))
  ELSE IF d.isEOF
  THEN LET d1 == FileStart(d) IN
       IF Len(d1.readySamples) > 0
       THEN PreDecodeChunk([w EXCEPT !.ad = [d1 EXCEPT !.readySamples = Tail(@)]],
                           Head(d1.readySamples))
       ELSE PreDecodeFlush([w EXCEPT !.ad = d1])       \* null chunk: break
  ELSE LET d1 == FileStart([d EXCEPT !.pendingRead = TRUE]) IN
       IF d1.handoff # NoSample
       THEN PreDecodeChunk([w EXCEPT !.ad = [d1 EXCEPT !.handoff = NoSample]],
                           d1.handoff)
       ELSE [w EXCEPT !.ad = d1, !.t.apc = "await"]

\* preDecodeAllAudio: audioDecoder.decode(chunk), then the next turn
PreDecodeChunk(w, s) ==
  IF ~w.r.audioDecoder \/ w.adc.state # "configured"
  THEN PreDecodeEnd(w, FALSE)      \* decode() throws
  ELSE PreDecodeLoop(
         [w EXCEPT !.adc.queue = @ + 1,
                   !.t.totalChunks = @ + 1,
                   !.h.audioInOrder = @ /\ s = w.h.audioSubmitted,
                   !.h.audioSubmitted = @ + 1,
                   !.h.submittedAfterError =
                      @ \/ w.h.videoError \/ w.h.audioError])

\* The turns that getNextChunk serves from readySamples without
\* suspending, with the decoder configured: chunks are submitted until
\* readySamples is empty or the queue holds more than AudioQueueSpace
PreDecodeReady(w) ==
  LET rs == w.ad.readySamples
      take == Min(Min(Len(rs), AudioQueueSpace + 1 - w.adc.queue),
                  maxChunks - w.t.totalChunks)
  IN  PreDecodeLoop(
        [w EXCEPT !.ad.readySamples = SubSeq(rs, take + 1, Len(rs)),
                  !.adc.queue = @ + take,
                  !.t.totalChunks = @ + take,
                  !.h.audioInOrder =
                     @ /\ \A i \in 1 .. take :
                            rs[i] = w.h.audioSubmitted + i - 1,
                  !.h.audioSubmitted = @ + take,
                  !.h.submittedAfterError =
                     @ \/ (take > 0 /\ (w.h.videoError \/ w.h.audioError))])

\* preDecodeAllAudio: await audioDecoder.flush() after the loop
PreDecodeFlush(w) ==
  IF w.r.audioDecoder /\ w.adc.state # "closed"
  THEN IF w.adc.state # "configured" THEN PreDecodeEnd(w, FALSE)
       ELSE IF w.adc.queue = 0 THEN PreDecodeEnd(w, TRUE)
       ELSE [w EXCEPT !.t.apc = "flush"]
  ELSE PreDecodeEnd(w, TRUE)

\* preDecodeAllAudio: the full buffer is built unless an exception was
\* caught; audioFillInProgressRef is cleared and the function returns
PreDecodeEnd(w, built) ==
  [w EXCEPT
     !.r.fullAudioBuffer = IF built THEN BuildFullAudioBuffer(w) ELSE @,
     !.r.audioReady = IF built THEN TRUE ELSE @,
     !.h.audioBuilt = IF built THEN w.h.audioSubmitted ELSE @,
     !.h.audioPending = IF built THEN w.adc.queue ELSE @,
     !.r.audioFillInProgress = FALSE,
     !.t.apc = "idle"]

\* play() resumes once the preDecodeAllAudio() it awaits has returned
PlayAfterPreDecode(w) ==
  LET waiting == {p \in w.t.plays : p.pc = "predecode"} IN
  IF w.t.apc # "idle" \/ waiting = {} THEN w
  ELSE PlayPrebuffer(w, (CHOOSE p \in waiting : TRUE).id, 0)

\* The 10 ms timer of preDecodeAllAudio fires
PreDecodeWake(w) ==
  IF ~w.r.audioDecoder \/ w.adc.state = "closed"
  THEN PreDecodeNext([w EXCEPT !.t.apc = "run"])
  ELSE IF w.adc.queue > AudioQueueSpace THEN w
  ELSE PreDecodeNext([w EXCEPT !.t.apc = "run"])

\* A sample handed to the pending reader of the audio demuxer resumes
\* preDecodeAllAudio
SettleAudio(w) ==
  IF w.ad.handoff = NoSample THEN w
  ELSE IF w.t.apc = "await"
  THEN PreDecodeChunk([w EXCEPT !.ad.handoff = NoSample, !.t.apc = "run"],
                      w.ad.handoff)
  ELSE [w EXCEPT !.ad.handoff = NoSample]

\* play(): one turn of the pre-buffer loop, up to await fillFrameBuffer()
PlayPrebuffer(w, id, attempts) ==
  IF attempts < maxBufferAttempts
  THEN Resume(FillFrameBuffer(SetPlay(w, id, "fill", attempts),
                              PlayCaller(id)))
  ELSE PlayFinal(w, id)

\* play(): the rest of the turn, up to the 100 ms timer
PlayAfterFill(w, id) ==
  IF Len(w.r.frameBuffer) >= MIN_FRAMES_BEFORE_PLAY
  THEN PlayFinal(w, id)
  ELSE SetPlay(w, id, "wait", PlayOf(w, id).attempts)

\* A sample handed to the pending reader resumes the suspended fill
Settle(w) ==
  IF w.vd.handoff = NoSample THEN w
  ELSE IF w.t.fillPc = "await"
  THEN Resume(FillChunk([w EXCEPT !.vd.handoff = NoSample,
                                  !.t.fillPc = "run"],
                        w.vd.handoff))
  ELSE [w EXCEPT !.vd.handoff = NoSample]

-----------------------------------------------------------------------------
(* initializePlayer, from one await to the next                            *)

\* The catch block of initializePlayer
InitFail(w, error) ==
  [w EXCEPT !.u.isLoading = FALSE, !.u.error = error, !.t.init = "failed"]

\* After await videoDemuxer.initialize(VIDEO_STREAM_TYPE): the decoder is
\* created, then isConfigSupported is awaited
InitAfterVideoDemux(w) ==
  IF w.vd.phase = "ready"
  THEN [w EXCEPT !.r.videoDecoder = TRUE, !.dec.state = "unconfigured",
                 !.t.init = "vsupport"]
  ELSE InitFail(w, IF w.vd.phase = "noTrack" THEN "noTrack" ELSE "fetch")

\* videoDecoder.configure(...), then the audio demuxer is created and
\* audioDemuxer.initialize(AUDIO_STREAM_TYPE) is awaited
ConfigureVideo(w) ==
  [w EXCEPT !.dec.state = "configured",
            !.dec.keyRequired = TRUE,
            !.r.audioDemuxer = TRUE,
            !.ad = DemuxInitialize(NewDemuxer(AUDIO_STREAM_TYPE)),
            !.t.init = "ademux",
            !.h.awaitingFirst = TRUE,
            !.h.firstAfterReset = "none",
            !.h.discarded = FALSE]

\* After await VideoDecoder.isConfigSupported(...)
InitVideoSupport(w, supported) ==
  IF ~supported THEN InitFail(w, "codec") ELSE ConfigureVideo(w)

\* updateState({isLoading: false, duration}); await fillFrameBuffer()
InitFinish(w) ==
  Resume(FillFrameBuffer([w EXCEPT !.u.isLoading = FALSE, !.t.init = "fill"],
                         InitCaller))

\* After await audioDemuxer.initialize(AUDIO_STREAM_TYPE), or its failure
InitAfterAudioDemux(w) ==
  IF w.ad.phase = "ready"
  THEN [w EXCEPT !.r.audioContext = TRUE,
                 !.e.actxState = IF media.actxRunning THEN "running"
                                 ELSE "suspended",
                 !.r.audioDecoder = TRUE,
                 !.adc.state = "unconfigured",
                 !.t.init = "asupport"]
  ELSE InitFinish(w)

\* After await AudioDecoder.isConfigSupported(...)
InitAudioSupport(w, supported) ==
  InitFinish(IF supported THEN [w EXCEPT !.adc.state = "configured"]
             ELSE [w EXCEPT !.r.audioDecoder = FALSE])

\* Whichever await of initializePlayer a demuxer's progress completes
InitProgress(w) ==
  IF w.t.init = "vdemux" /\ w.vd.phase \in {"ready", "noTrack", "failed"}
  THEN InitAfterVideoDemux(w)
  ELSE IF w.t.init = "ademux" /\ w.ad.phase \in {"ready", "noTrack", "failed"}
  THEN InitAfterAudioDemux(w)
  ELSE w

-----------------------------------------------------------------------------
(* handleSeek and the unmount cleanup                                      *)

\* (a handleSeek that updates the observable only)
SeekPositionObservableOnly(w, newTime) == [w EXCEPT !.u.currentTime = newTime]

\* handleSeek: the new position is saved and published
SeekPosition(w, newTime) ==
  [w EXCEPT !.r.mediaStartTime = newTime, !.u.currentTime = newTime]

HandleSeek(w, newTime) ==
  LET wasPlaying == w.r.isPlaying
      w1 == IF wasPlaying THEN Pause(w) ELSE w
      w2 == [SeekPosition(w1, newTime) EXCEPT
               !.r.frameBuffer = <<>>,
               !.r.needsKeyframe = TRUE,
               !.vd = IF w1.r.videoDemuxer THEN DemuxSeek(@, newTime) ELSE @,
               !.h.awaitingFirst = TRUE,
               !.h.firstAfterReset = "none",
               !.h.discarded = FALSE,
               !.h.vnext = IF w1.r.videoDemuxer /\ w1.vd.file THEN NoSample ELSE @,
               !.h.vseek = @ \/ (w1.r.videoDemuxer /\ w1.vd.file),
               !.h.vfirst = IF w1.r.videoDemuxer /\ w1.vd.file
                            THEN NoSample ELSE @,
               !.h.seekDuringFill = (w1.t.fillPc = "await"),
               !.h.seekTarget = newTime,
               !.h.vstale = Len(w1.dec.queue),
               !.h.seekPlayed = NoTime,
               !.h.seekFresh = TRUE,
               !.h.firstCmt = NoTime,
               !.h.firstDrawn = NoTime,
               !.h.pausePos = NoTime,
               !.h.resumeCmt = NoTime,
               !.h.resumeDue = @ \/ wasPlaying]
  IN  Resume(FillFrameBuffer(w2, SeekCaller(wasPlaying)))

\* The component declares no audioFillIntervalRef (nor
\* audioScheduleIntervalRef): evaluating it in the cleanup throws a
\* ReferenceError
AudioFillIntervalRefDeclared == FALSE

\* The cleanup up to the first use of audioFillIntervalRef
CleanupHead(w) ==
  StopBufferIntervals(
    [w EXCEPT !.r.isCleanedUp = TRUE, !.r.isPlaying = FALSE])

\* The cleanup after it
CleanupRest(w) ==
  LET w1 == CancelFrame(w) IN
  [w1 EXCEPT
     !.r.frameBuffer = <<>>,
     !.dec.state = IF w1.r.videoDecoder THEN "closed" ELSE @,
     !.dec.queue = <<>>,
     !.adc.state = IF w1.r.audioDecoder THEN "closed" ELSE @,
     !.adc.queue = 0,
     !.r.videoDecoder = FALSE,
     !.r.audioDecoder = FALSE,
     !.e.actxState = IF w1.r.audioContext THEN "closed" ELSE @,
     !.r.audioContext = FALSE,
     !.vd = IF w1.r.videoDemuxer THEN DemuxStop(@) ELSE @,
     !.ad = IF w1.r.audioDemuxer THEN DemuxStop(@) ELSE @,
     !.r.videoDemuxer = FALSE,
     !.r.audioDemuxer = FALSE]

\* What the cleanup leaves behind when control leaves it
CleanupResult(w) ==
  [ intervalStopped |-> ~w.r.videoFillInterval,
    frameCancelled  |-> ~w.r.animationFrame /\ ~w.t.rafCur,
    bufferEmpty     |-> Len(w.r.frameBuffer) = 0,
    decodersClosed  |-> /\ w.dec.state \in {"none", "closed"}
                        /\ ~w.r.audioDecoder \/ w.adc.state = "closed",
    audioClosed     |-> w.e.actxState \in {"none", "closed"},
    demuxersStopped |-> w.vd.aborted /\ (w.ad.phase = "new" \/ w.ad.aborted) ]

Cleanup(w) ==
  IF w.r.isCleanedUp THEN w
  ELSE LET w1 == CleanupHead(w)
           w2 == IF AudioFillIntervalRefDeclared THEN CleanupRest(w1) ELSE w1
       IN  [w2 EXCEPT !.h.cleanupRan = TRUE,
                      !.h.cleanupResult = CleanupResult(w2)]

-----------------------------------------------------------------------------
(* Initial states                                                          *)

\* A resource with a video track of n samples at 30 frames per second and
\* no audio track, delivered inc samples per network read; the decoder
\* delivers its frames burst at a time.  An audio track has an samples,
\* which arrive in one read and are decoded aburst at a time.  Sample bad of
\* the video track, if any, is corrupt, as is the audio track when audioBad.
Video(n, firstKey, inc, burst) ==
  [ n |-> n, gop |-> GopLen, firstKey |-> firstKey, frameDur |-> 33333,
    inc |-> inc, batch |-> n, burst |-> burst, hdrReads |-> 1,
    hasMoov |-> TRUE, hasVideo |-> TRUE, hasAudio |-> FALSE,
    codecOk |-> TRUE, audioCodecOk |-> TRUE, audioDur |-> 0,
    an |-> 0, aburst |-> 1, actxRunning |-> FALSE,
    bad |-> NoSample, audioBad |-> FALSE, dt |-> Quantum,
    seeks |-> 0, toggles |-> 0, advances |-> 0, waits |-> MaxWaits ]

\* The user and clock events of one behaviour
Events(m, seeks, toggles, advances) ==
  [m EXCEPT !.seeks = seeks, !.toggles = toggles, !.advances = advances]

\* Seeks against a stream that arrives in two reads and starts with a
\* delta sample
SeekScenario ==
  Events(Video(ShortLen, 1, ShortLen \div 2, ShortLen), MaxSeeks, 1, 0)

\* Play, pause and seek with the clock running
PlayScenario ==
  Events(Video(ShortLen, 0, ShortLen, ShortLen), 1, MaxToggles, MaxAdvances)

\* A stream longer than the frame buffer, arriving in one read and decoded
\* one frame per task
LongScenario == Events(Video(LongLen, 0, LongLen, 1), 0, 1, 0)

\* Play and pause of a resource whose audio track is shorter than its
\* video track; the audio context is created suspended
AudioScenario ==
  Events([Video(ShortLen, 0, ShortLen, ShortLen) EXCEPT
            !.hasAudio = TRUE, !.audioDur = Quantum \div 2,
            !.an = ShortAudio, !.aburst = ShortAudio],
         0, MaxToggles, MaxAdvances)

\* An audio track with more samples than the audio decoder is given at a
\* time, decoded one chunk per task
AudioLongScenario ==
  Events([Video(ShortLen, 0, ShortLen, ShortLen) EXCEPT
            !.hasAudio = TRUE, !.audioDur = Quantum \div 2,
            !.an = LongAudio, !.aburst = 1],
         0, 1, 0)

\* An audio track with one chunk more than preDecodeAllAudio submits, the
\* decoder delivering as many outputs per task as its queue is let to hold
AudioLimitScenario ==
  Events([Video(ShortLen, 0, ShortLen, ShortLen) EXCEPT
            !.hasAudio = TRUE, !.audioDur = Quantum \div 2,
            !.an = maxChunks + 1, !.aburst = AudioQueueSpace + 1],
         0, 1, 0)

\* A seek in the audio-clock mode
AudioSeekScenario == Events(AudioScenario, 1, 1, 1)

\* A stream that fills the frame buffer before its last bytes arrive
MidScenario ==
  Events(Video(MidLen, 0, FRAME_BUFFER_TARGET_SIZE, FRAME_BUFFER_TARGET_SIZE),
         1, 1, 0)

\* A video track whose codec the decoder does not support
CodecScenario ==
  Events([Video(ShortLen, 0, ShortLen, ShortLen) EXCEPT !.codecOk = FALSE],
         1, 1, 0)

\* A byte stream that ends without track metadata (no moov box)
NoMoovScenario ==
  Events([Video(ShortLen, 0, ShortLen, ShortLen) EXCEPT !.hasMoov = FALSE],
         1, 1, 0)

\* A resource with an audio track only
NoVideoScenario ==
  Events([Video(ShortLen, 0, ShortLen, ShortLen) EXCEPT
            !.hasVideo = FALSE, !.hasAudio = TRUE],
         1, 1, 0)

\* A video track with a corrupt sample near its end
DecodeErrorScenario ==
  Events([Video(ShortLen, 0, ShortLen, GopLen) EXCEPT !.bad = ShortLen - 3],
         0, 1, 1)

\* A resource whose audio track is corrupt
AudioErrorScenario ==
  Events([AudioScenario EXCEPT !.audioBad = TRUE], 0, 2, 0)

\* A short stream played to its end, the clock advancing a second at a time
EndScenario ==
  Events([Video(ShortLen, 0, ShortLen, ShortLen) EXCEPT !.dt = LongStep],
         0, 1, MaxAdvances)

\* A stream whose second half arrives late, played on a slow clock
StallScenario ==
  Events([Video(2 * ShortLen, 0, ShortLen, ShortLen) EXCEPT !.dt = LongStep],
         0, 1, MaxAdvances + 1)

Scenarios ==
  { SeekScenario, PlayScenario, LongScenario, AudioScenario,
    AudioSeekScenario, MidScenario, CodecScenario, NoMoovScenario,
    NoVideoScenario, AudioLongScenario, DecodeErrorScenario,
    AudioErrorScenario, EndScenario, StallScenario, AudioLimitScenario }

InitRef ==
  [ isCleanedUp |-> FALSE, isPlaying |-> FALSE, needsKeyframe |-> TRUE,
    fillInProgress |-> FALSE, audioFillInProgress |-> FALSE,
    frameBuffer |-> <<>>, droppedFrames |-> 0,
    lastRenderedTimestamp |-> -1, lastDebugUpdate |-> 0,
    videoFillInterval |-> FALSE, animationFrame |-> FALSE,
    playbackStartTime |-> 0, mediaStartTime |-> 0,
    audioStartTime |-> 0, mediaTimeOffset |-> 0,
    audioReady |-> FALSE, fullAudioBuffer |-> NoTime,
    audioSourceNode |-> FALSE,
    videoDemuxer |-> TRUE, audioDemuxer |-> FALSE,
    videoDecoder |-> FALSE, audioDecoder |-> FALSE,
    audioContext |-> FALSE, canvasCtx |-> TRUE ]

\* Volumes are percentages of the slider's range; state.volume starts at 1
FullVolume == 100

InitUi ==
  [ isPlaying |-> FALSE, isLoading |-> TRUE, error |-> "none",
    currentTime |-> 0, buffering |-> FALSE,
    volume |-> FullVolume, isMuted |-> FALSE ]

InitTasks ==
  [ init |-> "vdemux", fillPc |-> "idle", fillCaller |-> NoCaller,
    resume |-> NoCaller,
    plays |-> {}, nextPlayId |-> 1, rafs |-> 0, rafCur |-> FALSE,
    apc |-> "idle", totalChunks |-> 0 ]

StartNow == 1000000

InitEnv ==
  [ now |-> StartNow, actxTime |-> 0, actxState |-> "none",
    mounted |-> TRUE, canvas |-> TRUE,
    seeks |-> 0, toggles |-> 0, advances |-> 0,
    gain |-> FullVolume, volumes |-> 0, mutes |-> 0 ]

NoCleanup ==
  [ intervalStopped |-> FALSE, frameCancelled |-> FALSE,
    bufferEmpty |-> FALSE, decodersClosed |-> FALSE, audioClosed |-> FALSE,
    demuxersStopped |-> FALSE ]

InitHist ==
  [ awaitingFirst |-> FALSE, firstAfterReset |-> "none", discarded |-> FALSE,
    seekDuringFill |-> FALSE, submitted |-> FALSE, loopRan |-> FALSE,
    tickAfterCleanup |-> FALSE, cleanupRan |-> FALSE,
    cleanupResult |-> NoCleanup,
    pausePos |-> NoTime, pauseAt |-> 0, resumeCmt |-> NoTime,
    seekTarget |-> NoTime, firstCmt |-> NoTime, firstDrawn |-> NoTime,
    seekFresh |-> FALSE, resumeDue |-> FALSE,
    videoError |-> FALSE, audioError |-> FALSE,
    submittedAfterError |-> FALSE,
    rendered |-> "none", renderedAt |-> 0, renderedLast |-> 0,
    stalled |-> FALSE, drawn |-> NoTime, drawBit |-> FALSE,
    audioSubmitted |-> 0, audioInOrder |-> TRUE,
    audioBuilt |-> NoTime, audioPending |-> 0,
    vnext |-> 0, vinOrder |-> TRUE, vseek |-> FALSE, vfirst |-> NoSample,
    vcount |-> 0, vgated |-> 0, vsubmitted |-> 0, vbroke |-> 0,
    seekPlayed |-> NoTime, vstale |-> 0, staleFrame |-> FALSE,
    reinits |-> 0 ]

\* The audio side of the streaming-audio player once initializePlayer has
\* created the AudioContext and the AudioDecoder; `scheduled` is the
\* history of the source.start() calls
NoStreamPlayer ==
  [ isPlaying |-> FALSE, pc |-> "idle", ctxState |-> "suspended",
    currentTime |-> 0, nextAudioTime |-> 0, audioBufferQueue |-> <<>>,
    scheduled |-> <<>>, outputs |-> 0, plays |-> 0, toggles |-> 0,
    advances |-> 0 ]

\* The frame buffer of the selection functions before any frame was decoded
NoSelector ==
  [ kind |-> "none", frameBuffer |-> <<>>, droppedFrames |-> 0,
    lastRenderedTimestamp |-> -1, clock |-> 0, decoded |-> NoTime,
    count |-> 0, selected |-> NoTime, previous |-> NoTime ]

\* CanvasVideoPlayer before it is mounted
NoCanvasPlayer ==
  [ mounted |-> FALSE,
    isPlaying |-> FALSE, isLoading |-> TRUE, error |-> FALSE,
    currentTime |-> 0,
    initializeDecoder |-> [videoUrl |-> 0, isPlaying |-> FALSE],
    init |-> "none",
    renderFrame |-> [defined |-> FALSE, isPlaying |-> FALSE],
    video |-> [element |-> FALSE, paused |-> TRUE, ended |-> FALSE,
               currentTime |-> 0],
    audioPlaying |-> FALSE,
    events |-> <<>>,
    animationFrame |-> FALSE,
    toggles |-> 0, seeks |-> 0,
    playCalls |-> 0, playDraws |-> 0, draws |-> 0 ]

\* The state after the component has mounted and its effect has called
\* initializePlayer, which runs up to await videoDemuxer.initialize()
InitWith(m) ==
  /\ media = m
  /\ ref = InitRef
  /\ ui = InitUi
  /\ vdemux = DemuxInitialize(NewDemuxer(VIDEO_STREAM_TYPE))
  /\ ademux = NewDemuxer(AUDIO_STREAM_TYPE)
  /\ vdec = [state |-> "none", queue |-> <<>>, keyRequired |-> FALSE]
  /\ adec = [state |-> "none", queue |-> 0]
  /\ tasks = InitTasks
  /\ env = InitEnv
  /\ hist = InitHist

-----------------------------------------------------------------------------
(* Actions: the tasks of the event loop                                    *)

\* fetch() of a demuxer settles
Fetched(ok) ==
  \/ /\ vdemux.phase = "fetch" /\ ~vdemux.aborted
     /\ Commit(InitProgress([World EXCEPT !.vd = DemuxFetched(@, ok)]))
  \/ /\ ademux.phase = "fetch" /\ ~ademux.aborted
     /\ Commit(InitProgress([World EXCEPT !.ad = DemuxFetched(@, ok)]))

\* reader.read() settles while a demuxer waits for the track metadata
HeaderRead ==
  \/ /\ vdemux.phase = "header" /\ ~vdemux.aborted
     /\ Commit(Settle(InitProgress([World EXCEPT !.vd = ProcessChunk(@)])))
  \/ /\ ademux.phase = "header" /\ ~ademux.aborted
     /\ Commit(InitProgress([World EXCEPT !.ad = ProcessChunk(@)]))

\* reader.read() settles in continueReading of the video demuxer
BodyRead ==
  /\ Reading(vdemux)
  /\ Commit(Settle([World EXCEPT !.vd = ContinueReading(@, media.inc)]))

\* reader.read() settles in continueReading of the audio demuxer, whose
\* samples arrive in one read
AudioBodyRead ==
  /\ Reading(ademux) /\ ademux.selected
  /\ Commit(PlayAfterPreDecode(
       SettleAudio([World EXCEPT !.ad = ContinueReading(@, media.an)])))

\* VideoDecoder.isConfigSupported settles
VideoSupportResult ==
  /\ tasks.init = "vsupport"
  /\ Commit(InitVideoSupport(World, media.codecOk))

\* AudioDecoder.isConfigSupported settles
AudioSupportResult ==
  /\ tasks.init = "asupport"
  /\ Commit(InitAudioSupport(World, media.audioCodecOk))

\* The output callback runs for the k oldest chunks of the decode queue
RECURSIVE Outputs(_, _)
Outputs(w, k) ==
  IF k = 0 \/ Len(w.dec.queue) = 0 \/ Head(w.dec.queue) = media.bad THEN w
  ELSE Outputs([w EXCEPT !.dec.queue = Tail(@),
                         !.r = OutputCallback(@, Cts(Head(w.dec.queue))),
                         !.h.vstale = Max(0, @ - 1),
                         !.h.staleFrame = @ \/ w.h.vstale > 0],
               k - 1)

\* The video decoder delivers decoded frames, media.burst of them in a row
DecoderOutput ==
  /\ vdec.state = "configured" /\ Len(vdec.queue) > 0
  /\ Head(vdec.queue) # media.bad
  /\ Commit(Outputs(World, media.burst))

\* The error callback given to new VideoDecoder; the decoder has closed
\* itself before it calls it
VideoErrorCallback(w) ==
  [w EXCEPT !.dec.state = "closed", !.dec.queue = <<>>,
            !.u.error = "decode",
            !.h.vstale = 0,
            !.h.videoError = TRUE]

\* The video decoder fails on a corrupt chunk
VideoDecoderError ==
  /\ vdec.state = "configured" /\ Len(vdec.queue) > 0
  /\ Head(vdec.queue) = media.bad
  /\ Commit(VideoErrorCallback(World))

\* The error callback given to new AudioDecoder only logs the error; the
\* decoder has closed itself, and a pending flush() rejects
AudioErrorCallback(w) ==
  LET w1 == [w EXCEPT !.adc.state = "closed", !.adc.queue = 0,
                      !.h.audioError = TRUE]
  IN  IF w1.t.apc = "flush" THEN PreDecodeEnd(w1, FALSE) ELSE w1

\* The audio decoder fails on a corrupt chunk
AudioDecoderError ==
  /\ adec.state = "configured" /\ adec.queue > 0 /\ media.audioBad
  /\ Commit(PlayAfterPreDecode(AudioErrorCallback(World)))

\* audioContext.resume() settles for a suspended play()
AudioResumed ==
  \E p \in tasks.plays :
    /\ p.pc = "resume"
    /\ IF env.actxState = "closed"
       THEN Commit(DropPlay(World, p.id))      \* the promise rejects
       ELSE Commit(PlayPreDecode([World EXCEPT !.e.actxState = "running"],
                                 p.id))

\* The audio decoder outputs media.aburst decoded chunks; a pending
\* flush() resolves when the queue has drained
AudioDecoderOutput ==
  /\ adec.state = "configured" /\ adec.queue > 0 /\ ~media.audioBad
  /\ LET w == [World EXCEPT !.adc.queue = Max(0, @ - media.aburst)]
     IN  Commit(IF w.t.apc = "flush" /\ w.adc.queue = 0
                THEN PlayAfterPreDecode(PreDecodeEnd(w, TRUE)) ELSE w)

\* The 10 ms timer of preDecodeAllAudio fires
AudioWaitTimer ==
  /\ tasks.apc = "wait"
  /\ Commit(PlayAfterPreDecode(PreDecodeWake(World)))

\* The 100 ms timer of the pre-buffer loop fires
PlayTimer ==
  \E p \in tasks.plays :
    /\ p.pc = "wait" /\ p.attempts < media.waits
    /\ Commit(PlayPrebuffer(World, p.id, p.attempts + 1))

\* The refill interval fires
FillTick ==
  /\ ref.videoFillInterval
  /\ IF ref.isPlaying /\ ~ref.isCleanedUp
     THEN Commit(Resume(FillFrameBuffer(World, NoCaller)))
     ELSE UNCHANGED vars

\* The clocks after dt has passed
Elapse(e, dt) ==
  [e EXCEPT !.now = @ + dt,
            !.actxTime = IF e.actxState = "running" THEN @ + dt ELSE @,
            !.advances = IF dt > 0 THEN @ + 1 ELSE @]

\* An animation frame callback runs renderLoop, dt after the task before
\* it.  The callback is the one animationFrameRef names (cur) or an older
\* one that was never cancelled.
RenderTick ==
  /\ tasks.rafs > 0
  /\ \E cur \in BOOLEAN, dt \in {0, media.dt} :
       /\ cur => tasks.rafCur
       /\ ~cur => tasks.rafs > (IF tasks.rafCur THEN 1 ELSE 0)
       /\ dt > 0 => env.advances < media.advances
       /\ Commit(RenderLoop(
            [World EXCEPT !.t.rafs = @ - 1,
                          !.t.rafCur = IF cur THEN FALSE ELSE @,
                          !.e = Elapse(@, dt)]))

Controls == env.mounted /\ ui.error = "none"

\* The user clicks play/pause
TogglePlayPause ==
  /\ Controls /\ env.toggles < media.toggles
  /\ LET w == [World EXCEPT !.e.toggles = @ + 1, !.h.seekFresh = FALSE,
                            !.h.resumeDue = FALSE]
     IN  Commit(IF ui.isPlaying THEN Pause(w) ELSE Play(w))

SeekTargets == {0, 100000, 500000}

\* The user moves the seek slider
Seek ==
  /\ Controls /\ env.seeks < media.seeks
  /\ \E t \in SeekTargets :
       Commit(Settle(HandleSeek([World EXCEPT !.e.seeks = @ + 1], t)))

\* The component unmounts: React detaches the canvas ref and runs the
\* effect cleanup
Unmount ==
  /\ env.mounted
  /\ Commit(Cleanup([World EXCEPT !.e.mounted = FALSE, !.e.canvas = FALSE]))

Next ==
  \/ \E ok \in BOOLEAN : Fetched(ok)
  \/ HeaderRead
  \/ BodyRead
  \/ VideoSupportResult
  \/ AudioSupportResult
  \/ DecoderOutput
  \/ VideoDecoderError
  \/ AudioDecoderError
  \/ AudioResumed
  \/ AudioBodyRead
  \/ AudioDecoderOutput
  \/ AudioWaitTimer
  \/ PlayTimer
  \/ FillTick
  \/ RenderTick
  \/ TogglePlayPause
  \/ Seek
  \/ Unmount

Init ==
  /\ \E m \in Scenarios : InitWith(m)
  /\ sel = NoSelector
  /\ canvasPlayer = NoCanvasPlayer
  /\ streamPlayer = NoStreamPlayer

Spec == Init /\ [][Next]_vars

-----------------------------------------------------------------------------
(* The volume controls. state.volume is a dependency of initializePlayer,  *)
(* and initializePlayer is the dependency of the mount effect: a render    *)
(* with another volume runs the effect's cleanup and then the effect       *)
(* again. The behaviours are followed up to that second run.               *)

MaxVolumeChanges == 1
MaxMutes == 2
VolumeLevels == {0, 50, FullVolume}

\* initializePlayer from its start to the first await
InitializePlayerStart(w) ==
  LET w1 == [w EXCEPT !.r.isCleanedUp = FALSE,
                      !.u.isLoading = TRUE, !.u.error = "none"] IN
  IF ~w1.e.canvas
  THEN InitFail(w1, "init")
  ELSE [w1 EXCEPT !.r.canvasCtx = TRUE,
                  !.r.videoDemuxer = TRUE,
                  !.vd = DemuxInitialize(NewDemuxer(VIDEO_STREAM_TYPE)),
                  !.t.init = "vdemux"]

\* The mount effect after a render that changed initializePlayer
RerunEffect(w) ==
  [InitializePlayerStart(Cleanup(w)) EXCEPT !.h.reinits = @ + 1]

handleVolumeChange(w, newVolume) ==
  LET w1 == [w EXCEPT
               !.u.volume = newVolume,
               !.e.gain = IF w.r.audioContext THEN newVolume ELSE @,
               !.u.isMuted = IF newVolume > 0 /\ w.u.isMuted THEN FALSE
                             ELSE @]
  IN  IF newVolume # w.u.volume THEN RerunEffect(w1) ELSE w1

toggleMute(w) ==
  LET newMuted == ~w.u.isMuted IN
  [w EXCEPT !.u.isMuted = newMuted,
            !.e.gain = IF w.r.audioContext
                       THEN (IF newMuted THEN 0 ELSE w.u.volume)
                       ELSE @]

\* The user moves the volume slider
VolumeChange ==
  /\ Controls /\ hist.reinits = 0
  /\ env.volumes < MaxVolumeChanges
  /\ \E v \in VolumeLevels :
       Commit(handleVolumeChange([World EXCEPT !.e.volumes = @ + 1], v))

\* The user clicks the mute button
MuteClick ==
  /\ Controls /\ hist.reinits = 0
  /\ env.mutes < MaxMutes
  /\ Commit(toggleMute([World EXCEPT !.e.mutes = @ + 1]))

VolumeScenarios == {AudioScenario, DecodeErrorScenario, AudioErrorScenario}

VolumeInit ==
  /\ \E m \in VolumeScenarios : InitWith(m)
  /\ sel = NoSelector
  /\ canvasPlayer = NoCanvasPlayer
  /\ streamPlayer = NoStreamPlayer

VolumeNext ==
  \/ hist.reinits = 0 /\ Next
  \/ VolumeChange
  \/ MuteClick

VolumeSpec == VolumeInit /\ [][VolumeNext]_vars

-----------------------------------------------------------------------------
(* The selection functions on their own: frames are decoded in increasing  *)
(* timestamp order into a frame buffer, and one of the three selectors is  *)
(* called with a clock that never goes back                                *)

SelectorKinds == {"renderLoop", "chooseFrame", "chooseFrameScan"}

\* Distances between two decoded timestamps, and between two clock readings
FrameGaps == {Quantum, SelGap * Quantum}
ClockSteps == {0, Quantum \div 2, Quantum, SelGap * Quantum}

\* The VideoDecoder outputs the next frame
SelectOutput ==
  /\ sel.count < SelFrames
  /\ \E gap \in FrameGaps :
       LET ts == IF sel.decoded = NoTime THEN 0 ELSE sel.decoded + gap IN
       sel' = [OutputCallback(sel, ts) EXCEPT !.decoded = ts, !.count = @ + 1]
  /\ UNCHANGED <<media, ref, ui, vdemux, ademux, vdec, adec, tasks, env, hist,
                 canvasPlayer, streamPlayer>>

\* What a selector leaves: the buffer, the frame it selected, the frame
\* drawn last
Selection(kind, buffer, cmt, lastTs) ==
  IF kind = "renderLoop"
  THEN LET s == SelectFrame(buffer, cmt, lastTs) IN
       [ buffer |-> IF s.draw THEN Tail(s.buffer) ELSE s.buffer,
         frame |-> IF s.show THEN s.buffer[1] ELSE NoTime,
         last |-> IF s.draw THEN s.buffer[1] ELSE lastTs ]
  ELSE LET c == IF kind = "chooseFrame" THEN ChooseFrame(buffer, cmt)
                ELSE ChooseFrameScan(buffer, cmt) IN
       [ buffer |-> c.buffer, frame |-> c.frame,
         last |-> IF c.frame # NoTime THEN c.frame ELSE lastTs ]

\* An animation frame: the clock is read and the selector runs
SelectTick ==
  /\ \E dt \in ClockSteps :
       /\ sel.clock + dt <= SelHorizon * Quantum
       /\ LET cmt == sel.clock + dt
              s == Selection(sel.kind, sel.frameBuffer, cmt,
                             sel.lastRenderedTimestamp)
          IN  sel' = [sel EXCEPT
                        !.clock = cmt,
                        !.frameBuffer = s.buffer,
                        !.lastRenderedTimestamp = s.last,
                        !.selected = IF s.frame # NoTime THEN s.frame ELSE @,
                        !.previous = IF s.frame # NoTime THEN sel.selected
                                     ELSE @]
  /\ UNCHANGED <<media, ref, ui, vdemux, ademux, vdec, adec, tasks, env, hist,
                 canvasPlayer, streamPlayer>>

SelectInit ==
  /\ InitWith(PlayScenario)
  /\ \E kind \in SelectorKinds : sel = [NoSelector EXCEPT !.kind = kind]
  /\ canvasPlayer = NoCanvasPlayer
  /\ streamPlayer = NoStreamPlayer

SelectNext == SelectOutput \/ SelectTick

SelectSpec == SelectInit /\ [][SelectNext]_vars

-----------------------------------------------------------------------------
(* The audio scheduling of the streaming-audio player: the AudioDecoder    *)
(* output callback queues each AudioData and calls scheduleAudioPlayback,  *)
(* which starts one AudioBufferSourceNode per queued AudioData             *)

\* scheduleAudioPlayback()
RECURSIVE ScheduleAudioPlayback(_)
ScheduleAudioPlayback(p) ==
  IF ~p.isPlaying \/ Len(p.audioBufferQueue) = 0 THEN p
  ELSE LET duration == Head(p.audioBufferQueue)
           startTime == Max(p.nextAudioTime, p.currentTime)
       IN  ScheduleAudioPlayback(
             [p EXCEPT !.audioBufferQueue = Tail(@),
                       !.nextAudioTime = startTime + duration,
                       !.scheduled =
                          Append(@, [ start |-> startTime,
                                      end |-> startTime + duration,
                                      at |-> p.currentTime,
                                      cursor |-> p.nextAudioTime,
                                      play |-> p.plays ])])

\* play() after the await of audioContext.resume()
StreamPlayRest(p) ==
  ScheduleAudioPlayback(
    [p EXCEPT !.pc = "idle", !.nextAudioTime = p.currentTime,
              !.plays = @ + 1])

\* play() up to the await of audioContext.resume()
StreamPlay(p) ==
  IF p.isPlaying THEN p
  ELSE LET p1 == [p EXCEPT !.isPlaying = TRUE] IN
       IF p.ctxState = "suspended" THEN [p1 EXCEPT !.pc = "resume"]
       ELSE StreamPlayRest(p1)

\* pause()
StreamPause(p) ==
  [p EXCEPT !.isPlaying = FALSE,
            !.ctxState = IF @ = "running" THEN "suspended" ELSE @]

StreamCommit(p) ==
  /\ streamPlayer' = p
  /\ UNCHANGED <<media, ref, ui, vdemux, ademux, vdec, adec, tasks, env, hist,
                 sel, canvasPlayer>>

\* The AudioDecoder output callback receives an AudioData.  The decoder
\* is given chunks by fillAudioBuffer, which play() and the render loop
\* call, so that it has none before the first play() has passed its await.
StreamOutput ==
  /\ streamPlayer.plays > 0
  /\ streamPlayer.outputs < StreamChunks
  /\ StreamCommit(ScheduleAudioPlayback(
       [streamPlayer EXCEPT !.audioBufferQueue = Append(@, ChunkDur),
                            !.outputs = @ + 1]))

\* The user clicks play/pause
StreamToggle ==
  /\ streamPlayer.toggles < StreamToggles
  /\ LET p == [streamPlayer EXCEPT !.toggles = @ + 1] IN
     StreamCommit(IF p.isPlaying THEN StreamPause(p) ELSE StreamPlay(p))

\* audioContext.resume() settles
StreamResumed ==
  /\ streamPlayer.pc = "resume"
  /\ StreamCommit(StreamPlayRest([streamPlayer EXCEPT !.ctxState = "running"]))

\* The audio clock of a running context advances
StreamAdvance ==
  /\ streamPlayer.ctxState = "running"
  /\ streamPlayer.advances < StreamAdvances
  /\ \E dt \in {ChunkDur \div 2, 2 * ChunkDur} :
       StreamCommit([streamPlayer EXCEPT !.currentTime = @ + dt,
                                        !.advances = @ + 1])

StreamInit ==
  /\ InitWith(PlayScenario)
  /\ sel = NoSelector
  /\ canvasPlayer = NoCanvasPlayer
  /\ \E state \in {"suspended", "running"} :
       streamPlayer = [NoStreamPlayer EXCEPT !.ctxState = state]

StreamNext == StreamOutput \/ StreamToggle \/ StreamResumed \/ StreamAdvance

StreamSpec == StreamInit /\ [][StreamNext]_vars

-----------------------------------------------------------------------------
(* The frame buffer refill of the streaming-audio player: fillFrameBuffer  *)
(* is called by initializePlayer, by every renderLoop turn and by the      *)
(* 10 ms timer it sets itself when it ends with the buffer below target.   *)
(* Frames are counted, not told apart.                                     *)

StreamBufferTarget == 10     \* FRAME_BUFFER_TARGET_SIZE of this player
MaxRetryTimers == 3          \* pending timers followed
RefillShort == 6             \* samples of a stream shorter than the target
RefillInc == 3               \* samples per network read

\* The player once initializePlayer has configured the VideoDecoder
NoRefillPlayer ==
  [ vd |-> NewDemuxer(VIDEO_STREAM_TYPE), init |-> "fill",
    isPlaying |-> FALSE, needsKeyframe |-> TRUE,
    fillInProgress |-> FALSE, fillPc |-> "idle",
    frameBuffer |-> 0, decodeQueueSize |-> 0,
    retryTimers |-> 0, timerAfterEOF |-> FALSE ]

\* The demuxer has signalled the end of the stream and holds no sample
Exhausted(d) ==
  d.isEOF /\ Len(d.readySamples) = 0 /\ d.next >= TrackLen(d.streamType)

\* fillFrameBuffer() after its loop
RefillEnd(p) ==
  LET p1 == [p EXCEPT !.fillInProgress = FALSE, !.fillPc = "idle"] IN
  IF p1.frameBuffer < StreamBufferTarget
  THEN [p1 EXCEPT !.retryTimers = @ + 1,
                  !.timerAfterEOF = @ \/ Exhausted(p.vd)]
  ELSE p1

RECURSIVE RefillLoop(_)

\* The turn of the loop once getNextChunk has resolved with sample s
RefillChunk(p, s) ==
  IF p.needsKeyframe /\ ~KeyAt(s) THEN RefillLoop(p)
  ELSE RefillLoop([p EXCEPT !.needsKeyframe = FALSE,
                            !.decodeQueueSize = @ + 1])

\* One turn of the while loop, up to the await of getNextChunk
RefillLoop(p) ==
  LET d == p.vd IN
  IF ~( /\ p.frameBuffer < StreamBufferTarget
        /\ p.decodeQueueSize < StreamBufferTarget * 2 )
  THEN RefillEnd(p)
  ELSE IF Len(d.readySamples) > 0
  THEN RefillChunk([p EXCEPT !.vd.readySamples = Tail(@)],
                   Head(d.readySamples))
  ELSE IF d.isEOF
  THEN LET d1 == FileStart(d) IN
       IF Len(d1.readySamples) > 0
       THEN RefillChunk([p EXCEPT !.vd = [d1 EXCEPT !.readySamples = Tail(@)]],
                        Head(d1.readySamples))
       ELSE RefillEnd([p EXCEPT !.vd = d1])        \* null chunk: break
  ELSE LET d1 == FileStart([d EXCEPT !.pendingRead = TRUE]) IN
       IF d1.handoff # NoSample
       THEN RefillChunk([p EXCEPT !.vd = [d1 EXCEPT !.handoff = NoSample]],
                        d1.handoff)
       ELSE [p EXCEPT !.vd = d1, !.fillPc = "await"]

\* fillFrameBuffer(); the component stays mounted and the decoder open, so
\* the guards on isCleanedUpRef and on the decoder never apply
Refill(p) ==
  IF p.fillInProgress \/ p.frameBuffer >= StreamBufferTarget THEN p
  ELSE RefillLoop([p EXCEPT !.fillInProgress = TRUE])

\* renderLoop(): chooseFrame closes the frames before the one it selects
\* (stale of them), then the buffers are refilled
StreamRenderLoop(p, stale) ==
  IF ~p.isPlaying THEN p
  ELSE Refill([p EXCEPT !.frameBuffer = @ - stale])

RefillCommit(p) ==
  /\ streamPlayer' = p
  /\ UNCHANGED <<media, ref, ui, vdemux, ademux, vdec, adec, tasks, env, hist,
                 sel, canvasPlayer>>

\* reader.read() settles in continueReading; a sample handed to the
\* pending getNextChunk resumes the suspended fillFrameBuffer
RefillRead ==
  /\ Reading(streamPlayer.vd)
  /\ streamPlayer.retryTimers < MaxRetryTimers
  /\ LET d == ContinueReading(streamPlayer.vd, media.inc)
         p == [streamPlayer EXCEPT !.vd = d] IN
     RefillCommit(IF p.fillPc = "await" /\ d.handoff # NoSample
                  THEN RefillChunk([p EXCEPT !.vd.handoff = NoSample,
                                             !.fillPc = "run"],
                                   d.handoff)
                  ELSE p)

\* initializePlayer reaches its await fillFrameBuffer()
RefillInitial ==
  /\ streamPlayer.init = "fill"
  /\ RefillCommit(Refill([streamPlayer EXCEPT !.init = "done"]))

\* The VideoDecoder outputs a frame
RefillOutput ==
  /\ streamPlayer.decodeQueueSize > 0
  /\ RefillCommit([streamPlayer EXCEPT !.decodeQueueSize = @ - 1,
                                       !.frameBuffer = @ + 1])

\* The user clicks play (no audio context to resume)
RefillPlay ==
  /\ ~streamPlayer.isPlaying
  /\ streamPlayer.retryTimers < MaxRetryTimers
  /\ \E stale \in 0 .. Max(0, Min(1, streamPlayer.frameBuffer - 1)) :
       RefillCommit(StreamRenderLoop(
         [streamPlayer EXCEPT !.isPlaying = TRUE], stale))

\* An animation frame
RefillRenderTick ==
  /\ streamPlayer.isPlaying
  /\ streamPlayer.retryTimers < MaxRetryTimers
  /\ \E stale \in 0 .. Max(0, Min(1, streamPlayer.frameBuffer - 1)) :
       RefillCommit(StreamRenderLoop(streamPlayer, stale))

\* A retry timer fires
RefillTimer ==
  /\ streamPlayer.retryTimers > 0
  /\ RefillCommit(Refill([streamPlayer EXCEPT !.retryTimers = @ - 1]))

RefillScenarios ==
  { Video(RefillShort, 0, RefillInc, 1), Video(ShortLen, 0, ShortLen, 1) }

RefillInit ==
  /\ \E m \in RefillScenarios : InitWith(m)
  /\ sel = NoSelector
  /\ canvasPlayer = NoCanvasPlayer
  /\ streamPlayer =
       [NoRefillPlayer EXCEPT
          !.vd = ProcessChunk(DemuxFetched(DemuxInitialize(@), TRUE))]

RefillNext ==
  \/ RefillRead
  \/ RefillInitial
  \/ RefillOutput
  \/ RefillPlay
  \/ RefillRenderTick
  \/ RefillTimer

RefillSpec == RefillInit /\ [][RefillNext]_vars

-----------------------------------------------------------------------------
(* Properties                                                              *)

\* C1: after the video decoder is configured and after every handleSeek,
\* the first chunk passed to videoDecoder.decode() is a key chunk (a delta
\* chunk read before it is not submitted), whatever the interleaving of
\* handleSeek with a fillFrameBuffer suspended in getNextChunk.
C1_FirstChunkIsKey == hist.firstAfterReset # "delta"

\* C2: the frame buffer never holds more than FRAME_BUFFER_MAX_SIZE frames,
\* and a decoder output that finds it full removes exactly the oldest frame
\* and adds exactly one to the dropped-frame counter before the new frame is
\* appended (stated for the k outputs of one decoder task: the buffer ends
\* as the newest 120 of the old buffer followed by the k frames, and the
\* counter grows by the number of frames that fell out).
C2_BufferBounded ==
  /\ [](Len(ref.frameBuffer) <= FRAME_BUFFER_MAX_SIZE)
  /\ [][ (Len(vdec'.queue) < Len(vdec.queue) /\ vdec'.state = "configured") =>
          LET k == Len(vdec.queue) - Len(vdec'.queue)
              all == ref.frameBuffer \o [i \in 1..k |-> Cts(vdec.queue[i])]
              over == Max(0, Len(all) - FRAME_BUFFER_MAX_SIZE)
          IN  /\ ref'.frameBuffer = SubSeq(all, over + 1, Len(all))
              /\ ref'.droppedFrames = ref.droppedFrames + over ]_vars

\* The buffer is full, frames have been evicted and more are on their way.
C2_Witness ==
  /\ Len(ref.frameBuffer) = FRAME_BUFFER_MAX_SIZE
  /\ ref.droppedFrames > 0
  /\ Len(vdec.queue) > 0

\* C3: once the unmount cleanup has run, no animation frame is requested
\* and no refill interval is created, also when a play() that was awaiting
\* at the time of the teardown completes later.
C3_NoTickAfterCleanup == ~hist.tickAfterCleanup

\* C4: the unmount cleanup runs to completion: when it returns the refill
\* interval is stopped, the animation frame cancelled, the frame buffer
\* empty, the decoders and the audio context closed, the demuxers stopped.
C4_CleanupCompletes ==
  hist.cleanupRan =>
    /\ hist.cleanupResult.intervalStopped
    /\ hist.cleanupResult.frameCancelled
    /\ hist.cleanupResult.bufferEmpty
    /\ hist.cleanupResult.decodersClosed
    /\ hist.cleanupResult.audioClosed
    /\ hist.cleanupResult.demuxersStopped

TickInterval == VIDEO_FILL_INTERVAL * 1000

\* C5: a play() called after a pause() of running playback, with no seek in
\* between, resumes where pause() stopped: the media time at the first
\* render of the resumed playback is within one tick interval of the
\* position pause() saved, in the audio-clock mode and in the wall-clock
\* mode.
C5_ResumeAtPausePosition ==
  hist.resumeCmt # NoTime =>
    Abs(hist.resumeCmt - hist.pausePos) <= TickInterval

C7_FirstFrameNearTarget ==
  (hist.seekTarget # NoTime /\ hist.firstDrawn # NoTime) =>
    Abs(hist.firstDrawn - hist.seekTarget) <= media.frameDur

\* The resume that a seek issued while playing owes can no longer happen
\* unless the user acts again: the player is paused, no play() is in
\* progress, and the fillFrameBuffer whose completion calls play() waits in
\* getNextChunk for a sample of a stream that has ended.
ResumeLost ==
  /\ hist.resumeDue /\ env.mounted
  /\ ~ref.isPlaying /\ ~ui.isPlaying /\ tasks.plays = {}
  /\ tasks.fillPc = "await" /\ tasks.fillCaller.kind = "seek"
  /\ tasks.fillCaller.wasPlaying
  /\ vdemux.netDone /\ vdemux.pendingRead

\* C8: a seek issued while playing returns the player to playing: as long
\* as the user does not act again, the resume has happened or can still
\* happen.
C8_SeekResumesPlayback == ~ResumeLost

\* C9: when isConfigSupported reports the video codec as unsupported,
\* initializePlayer reports the codec error before any chunk is handed to a
\* decoder: fillFrameBuffer never runs its decode loop for that resource.
C9_DecodeLoopNeverRuns == ~media.codecOk => ~hist.loopRan

\* C10: once the byte stream has ended without a track matching the
\* selector, MP4Demuxer.initialize has failed with the no-track error; it
\* is not left pending.
C10_InitializeSettles ==
  (vdemux.isEOF /\ ~vdemux.selected) => vdemux.phase = "noTrack"

\* C11: a getNextChunk call does not stay pending once the stream has ended
\* and no samples remain: a call that was waiting with pendingReadResolver
\* set when the stream reached its end has been resolved (with null).
C11_ReadSettlesAtEOF ==
  ( /\ vdemux.isEOF /\ vdemux.netDone
    /\ vdemux.next >= media.n /\ Len(vdemux.readySamples) = 0 )
  => ~vdemux.pendingRead

StreamStopped(d) == d.phase \in {"new", "failed"} \/ d.aborted \/ d.netDone

\* C13: whenever the player is in the error state, the demuxer streams have
\* been stopped, the decoders closed and the buffered frames closed, and no
\* refill or render tick remains scheduled.
C13_ErrorReleasesResources ==
  ui.error # "none" =>
    /\ StreamStopped(vdemux) /\ StreamStopped(ademux)
    /\ vdec.state \in {"none", "closed"}
    /\ adec.state \in {"none", "closed"}
    /\ Len(ref.frameBuffer) = 0
    /\ ~ref.videoFillInterval
    /\ tasks.rafs = 0

\* C14: once the error callback of the video or of the audio decoder has
\* reported a decode error, the player is in the error state (state.error
\* is set and stays set) and no further chunk is submitted to a decoder.
C14_DecodeErrorIsTerminal ==
  (hist.videoError \/ hist.audioError) =>
    /\ ui.error # "none"
    /\ ~hist.submittedAfterError

\* The end of the media has been reached: the stream has been read to its
\* end, every sample has been extracted, submitted and output, and the frame
\* buffer has drained.
EndOfMedia ==
  /\ vdemux.isEOF /\ vdemux.netDone /\ vdemux.next >= media.n
  /\ Len(vdemux.readySamples) = 0
  /\ Len(vdec.queue) = 0
  /\ Len(ref.frameBuffer) = 0

\* C15: when playback reaches the end of the media the player leaves
\* Playing: it does not stay there, with the render loop running, reporting
\* isPlaying = true and buffering = true.
C15_PlaybackEnds ==
  ~( /\ EndOfMedia
     /\ ref.isPlaying /\ ui.isPlaying /\ ui.buffering
     /\ tasks.plays = {} /\ tasks.rafs > 0 )

\* C16: while playing, a run of the render loop more than 100 ms after the
\* last refresh of the throttle sets buffering when it finds the frame
\* buffer empty and clears it when it selects a frame, so the observable
\* follows the buffer within the throttle window; and an error is raised by
\* a failed initialisation or a decoder error only, never by a stall.
C16_BufferingFollowsStall ==
  /\ [](( /\ hist.rendered # "none"
          /\ hist.renderedAt - hist.renderedLast > 100000 ) =>
          /\ hist.rendered = "empty" => ui.buffering
          /\ hist.rendered = "shown" => ~ui.buffering)
  /\ [][ ui'.error # ui.error =>
           \/ tasks'.init = "failed" /\ tasks.init # "failed"
           \/ hist'.videoError /\ ~hist.videoError ]_vars

\* The stream stalled and the render loop reported buffering; data has
\* resumed, a frame has been selected and buffering is false again, with no
\* error.
C16_Witness ==
  /\ hist.stalled /\ hist.rendered = "shown"
  /\ ref.isPlaying /\ ~ui.buffering /\ ui.error = "none"



-----------------------------------------------------------------------------
(* CanvasVideoPlayer: a hidden video element decodes, renderFrame copies    *)
(* its picture to the canvas                                               *)

\* useCallback(fn, [videoUrl]): the function created by an earlier render
\* is kept, with the values that render had, while videoUrl is the same
UseCallback(memo, videoUrl, isPlaying) ==
  IF memo.videoUrl = videoUrl THEN memo
  ELSE [videoUrl |-> videoUrl, isPlaying |-> isPlaying]

\* A render of the component after a state update
Rerender(c) ==
  [c EXCEPT !.initializeDecoder = UseCallback(@, 1, c.isPlaying)]

\* renderFrame, with the isPlaying its closure holds
RenderFrame(c, fromPlay) ==
  IF ~c.renderFrame.isPlaying THEN c
  ELSE [c EXCEPT !.draws = @ + 1,
                 !.playDraws = IF fromPlay THEN @ + 1 ELSE @,
                 !.currentTime = c.video.currentTime,
                 !.animationFrame = TRUE]

\* video.play() and video.pause() of the hidden element
VideoPlay(c) ==
  IF ~c.video.paused /\ ~c.video.ended THEN c
  ELSE [c EXCEPT !.video.paused = FALSE,
                 !.video.currentTime = IF c.video.ended THEN 0 ELSE @,
                 !.video.ended = FALSE,
                 !.events = Append(@, "play")]

VideoPause(c) ==
  IF c.video.paused THEN c
  ELSE [c EXCEPT !.video.paused = TRUE, !.events = Append(@, "pause")]

\* The handlers initializeFallbackPlayer sets on the video element
OnPlay(c) ==
  RenderFrame([c EXCEPT !.audioPlaying = TRUE, !.playCalls = @ + 1], TRUE)

OnPause(c) ==
  [c EXCEPT !.audioPlaying = FALSE, !.animationFrame = FALSE]

OnEnded(c) == [c EXCEPT !.isPlaying = FALSE, !.audioPlaying = FALSE]

\* The callbacks the event loop can run next: the first queued event of
\* the video element, or the animation frame callback
PendingCallbacks(c) ==
  (IF Len(c.events) > 0 THEN {Head(c.events)} ELSE {})
  \cup (IF c.animationFrame THEN {"frame"} ELSE {})

RunCallback(c, cb) ==
  IF cb = "frame" THEN RenderFrame([c EXCEPT !.animationFrame = FALSE], FALSE)
  ELSE LET c1 == [c EXCEPT !.events = Tail(@)] IN
       IF ~c.renderFrame.defined THEN c1
       ELSE IF cb = "play" THEN OnPlay(c1)
       ELSE IF cb = "pause" THEN OnPause(c1)
       ELSE OnEnded(c1)

\* togglePlayPause
CanvasTogglePlayPause(c) ==
  IF ~c.video.element THEN c
  ELSE IF c.isPlaying
  THEN [VideoPause(c) EXCEPT !.audioPlaying = FALSE, !.isPlaying = FALSE]
  ELSE [VideoPlay(c) EXCEPT !.audioPlaying = TRUE, !.isPlaying = TRUE]

\* handleSeek
CanvasHandleSeek(c, newTime) ==
  IF ~c.video.element THEN c
  ELSE [c EXCEPT !.video.currentTime = newTime,
                 !.video.ended = FALSE,
                 !.currentTime = newTime]

\* The catch of initializeDecoder
InitializeFailed(c) ==
  [c EXCEPT !.init = "failed", !.error = TRUE, !.isLoading = FALSE]

\* initializeFallbackPlayer after the metadata has loaded, and the rest of
\* initializeDecoder: renderFrame is created by the initializeFallbackPlayer
\* of the render that created initializeDecoder
InitializeFallbackPlayer(c) ==
  [c EXCEPT !.renderFrame = [defined |-> TRUE,
                             isPlaying |-> c.initializeDecoder.isPlaying],
            !.video.element = TRUE,
            !.init = "done",
            !.isLoading = FALSE]

\* The cleanup of the mount effect
CanvasCleanup(c) ==
  [VideoPause(c) EXCEPT !.mounted = FALSE, !.animationFrame = FALSE]

\* The component mounts: first render, then the effect calls
\* initializeDecoder, which runs up to await fetch(videoUrl)
CanvasMount ==
  [NoCanvasPlayer EXCEPT
     !.mounted = TRUE,
     !.initializeDecoder = [videoUrl |-> 1, isPlaying |-> FALSE],
     !.init = "fetch"]

CanvasCommit(c) ==
  /\ canvasPlayer' = Rerender(c)
  /\ UNCHANGED <<media, ref, ui, vdemux, ademux, vdec, adec, tasks, env, hist,
                 sel, streamPlayer>>

\* fetch(videoUrl) settles
CanvasFetched(ok) ==
  /\ canvasPlayer.init = "fetch"
  /\ CanvasCommit(IF ok THEN [canvasPlayer EXCEPT !.init = "blob"]
                  ELSE InitializeFailed(canvasPlayer))

\* response.blob() settles; initializeFallbackPlayer creates the hidden
\* video element and waits for its metadata
CanvasBlobRead ==
  /\ canvasPlayer.init = "blob"
  /\ CanvasCommit([canvasPlayer EXCEPT !.init = "metadata"])

\* The video element fires loadedmetadata or error
CanvasMetadata(ok) ==
  /\ canvasPlayer.init = "metadata"
  /\ CanvasCommit(IF ok THEN InitializeFallbackPlayer(canvasPlayer)
                  ELSE InitializeFailed(canvasPlayer))

\* The user presses a play/pause button
CanvasToggle ==
  /\ canvasPlayer.mounted /\ ~canvasPlayer.error
  /\ canvasPlayer.toggles < CanvasToggles
  /\ CanvasCommit(CanvasTogglePlayPause(
                    [canvasPlayer EXCEPT !.toggles = @ + 1]))

\* The user moves the seek slider
CanvasSeek ==
  /\ canvasPlayer.mounted /\ ~canvasPlayer.error
  /\ canvasPlayer.seeks < CanvasSeeks
  /\ \E t \in 0 .. CanvasDuration - 1 :
       CanvasCommit(CanvasHandleSeek(
                      [canvasPlayer EXCEPT !.seeks = @ + 1], t))

\* The video element plays on; at the end of the video it fires ended
CanvasAdvance ==
  /\ canvasPlayer.video.element
  /\ ~canvasPlayer.video.paused /\ ~canvasPlayer.video.ended
  /\ LET t == canvasPlayer.video.currentTime + 1 IN
     CanvasCommit([canvasPlayer EXCEPT
                     !.video.currentTime = t,
                     !.video.ended = (t >= CanvasDuration),
                     !.events = IF t >= CanvasDuration
                                THEN Append(@, "ended") ELSE @])

\* The event loop runs a queued callback
CanvasCallback ==
  /\ canvasPlayer.mounted
  /\ \E cb \in PendingCallbacks(canvasPlayer) :
       CanvasCommit(RunCallback(canvasPlayer, cb))

\* VideoLibrary closes the player
CanvasUnmount ==
  /\ canvasPlayer.mounted
  /\ CanvasCommit(CanvasCleanup(canvasPlayer))

CanvasInit ==
  /\ InitWith(PlayScenario)
  /\ sel = NoSelector
  /\ canvasPlayer = CanvasMount
  /\ streamPlayer = NoStreamPlayer

CanvasNext ==
  \/ \E ok \in BOOLEAN : CanvasFetched(ok)
  \/ CanvasBlobRead
  \/ \E ok \in BOOLEAN : CanvasMetadata(ok)
  \/ CanvasToggle
  \/ CanvasSeek
  \/ CanvasAdvance
  \/ CanvasCallback
  \/ CanvasUnmount

CanvasSpec == CanvasInit /\ [][CanvasNext]_vars

\* C17: with frames decoded in strictly increasing timestamp order into
\* the frame buffer and a clock that never goes back, the frame a selector
\* (the render loop's selection, chooseFrame, the earlier chooseFrame)
\* selects never has a timestamp earlier than the frame it selected before.
C17_SelectionMonotonic ==
  sel.previous # NoTime => sel.selected >= sel.previous

\* A selector has selected a later frame after an earlier one, and frames
\* it left behind were removed on the way.
C17_Witness ==
  /\ sel.previous # NoTime /\ sel.selected > sel.previous
  /\ sel.count - Len(sel.frameBuffer) >= 3

\* C18: in CanvasVideoPlayer, each renderFrame call started by the video's
\* play event draws the current video frame (and reschedules itself).
C18_RenderFrameDraws ==
  canvasPlayer.playDraws = canvasPlayer.playCalls

\* The samples a consumer has taken from a demuxer
Consumed(d) == d.next - Len(d.readySamples)

\* C19: once readySamples holds at least SAMPLE_BUFFER_TARGET_SIZE samples,
\* the video demuxer extracts no further sample in a step in which no
\* consumer takes a sample and no seek happens, although the network goes
\* on delivering.
C19_ExtractionOnDemand ==
  [][ ( /\ Len(vdemux.readySamples) >= SAMPLE_BUFFER_TARGET_SIZE
        /\ Consumed(vdemux') = Consumed(vdemux)
        /\ env'.seeks = env.seeks )
      => vdemux'.next = vdemux.next ]_vars

\* The media clock a run of renderLoop reads in the current state
RenderClock == CurrentMediaTime([r |-> ref, e |-> env])

C21_StaleFrameNeverDrawn ==
  [][ ref'.lastRenderedTimestamp # ref.lastRenderedTimestamp =>
        RenderClock' - ref'.lastRenderedTimestamp <= FRAME_DROP_THRESHOLD ]_vars

Closest(buffer, target) ==
  CHOOSE i \in 1 .. Len(buffer) :
    \A j \in 1 .. Len(buffer) :
      \/ Abs(target - buffer[i]) < Abs(target - buffer[j])
      \/ Abs(target - buffer[i]) = Abs(target - buffer[j]) /\ i <= j

\* C23: on a buffer sorted by strictly increasing timestamp, the binary
\* search chooseFrame returns the entry closest to the target time (the
\* earlier one of two equally close entries), removes every entry before it
\* and leaves it at the head of the buffer.
C23_ChooseFrameClosest ==
  [][ ( /\ sel.kind = "chooseFrame"
        /\ sel'.count = sel.count
        /\ Len(sel.frameBuffer) > 0 )
      => LET i == Closest(sel.frameBuffer, sel'.clock) IN
         /\ sel'.selected = sel.frameBuffer[i]
         /\ sel'.frameBuffer =
              SubSeq(sel.frameBuffer, i, Len(sel.frameBuffer)) ]_vars

\* C24: a frame leaves the frame buffer exactly where the code closes it,
\* so the frames of the buffer are the delivered frames not yet closed;
\* once the unmount cleanup has run, no delivered frame is left unclosed.
C24_FramesClosedAfterTeardown ==
  hist.cleanupRan => Len(ref.frameBuffer) = 0

\* C25: from a pause() until play() is called again the player stays
\* stopped: isPlayingRef is false (a render callback that still fires
\* returns at once), no refill interval and no animation frame is
\* registered, and no audio source plays.  A play() that was still
\* pre-buffering when pause() ran must not start them.
C25_PausedUntilPlay ==
  (hist.pauseAt > 0 /\ tasks.nextPlayId = hist.pauseAt) =>
    /\ ~ref.isPlaying
    /\ ~ref.videoFillInterval
    /\ ~tasks.rafCur
    /\ ~ref.audioSourceNode

\* C26: when preDecodeAllAudio of a mounted player marks the audio ready,
\* every chunk of the audio track has been submitted to the decoder, in
\* the track's order, and the decoder has delivered the output of each of
\* them before the buffer was built, whatever the length of the track.
C26_AllAudioDecoded ==
  (ref.audioReady /\ ~ref.isCleanedUp) =>
    /\ hist.audioBuilt = media.an
    /\ hist.audioInOrder
    /\ hist.audioPending = 0

C29_SeekReturnsSyncSample ==
  hist.vfirst # NoSample =>
    LET target == Min(media.n - 1, hist.seekTarget \div media.frameDur) IN
    /\ hist.vfirst <= target
    /\ \A i \in hist.vfirst + 1 .. target : ~KeyAt(i)
    /\ target >= media.firstKey => KeyAt(hist.vfirst)

C29_Witness ==
  /\ hist.vfirst = GopLen /\ hist.seekDuringFill
  /\ hist.vcount > ShortLen

\* C30: the media time offset (mediaTimeOffsetRef) that the first play()
\* completed after handleSeek(t) installs for the audio clock is t, also
\* when t lies beyond the end of the pre-decoded audio buffer.
C30_SeekSetsClockReference ==
  hist.seekPlayed # NoTime => hist.seekPlayed = hist.seekTarget

\* C27: scheduleAudioPlayback starts each chunk at the later of the
\* next-output-time cursor and the audio clock and moves the cursor to the
\* end of the chunk, so that no chunk starts in the past, no chunk starts
\* before the chunk scheduled before it has ended, and a chunk scheduled
\* while the cursor is not behind the clock starts where that chunk ends.
C27_ChunksNeverOverlap ==
  LET s == streamPlayer.scheduled IN
  \A i \in 1 .. Len(s) :
    /\ s[i].start = Max(s[i].cursor, s[i].at)
    /\ s[i].start >= s[i].at
    /\ i > 1 => s[i].start >= s[i - 1].end
    /\ (i > 1 /\ s[i].cursor >= s[i].at) => s[i].start = s[i - 1].end

\* C31: play() does not stay in its pre-buffering phase: there is no state
\* in which a play() awaits its own fillFrameBuffer() call while that call
\* waits for a chunk of a stream that has ended with no sample left to
\* deliver, so that neither the 20 frames nor the 50th attempt can come.
C31_PlayLeavesPrebuffer ==
  ~ \E p \in tasks.plays :
      /\ p.pc = "fill"
      /\ tasks.fillPc = "await" /\ tasks.fillCaller = PlayCaller(p.id)
      /\ vdemux.isEOF /\ vdemux.netDone
      /\ vdemux.next >= media.n /\ Len(vdemux.readySamples) = 0
      /\ vdemux.pendingRead

\* C32: the frame buffer is sorted by strictly increasing timestamp in
\* every reachable state.
C32_FrameBufferSorted ==
  \A i \in 1 .. Len(ref.frameBuffer) - 1 :
    ref.frameBuffer[i] < ref.frameBuffer[i + 1]

\* C33: no frame decoded from a chunk that was in the video decoder when
\* handleSeek ran has been appended to the frame buffer after that seek.
C33_NoStaleFrameAfterSeek == ~hist.staleFrame

\* C34: the buffered frames and the chunks in flight in the video decoder
\* together never exceed FRAME_BUFFER_MAX_SIZE, so that the output callback
\* never has to evict a frame to make room.
C34_BufferAndFlightBounded ==
  Len(ref.frameBuffer) + Len(vdec.queue) <= FRAME_BUFFER_MAX_SIZE

\* C35: while the component is mounted and no play() call is in progress,
\* the isPlaying observable equals isPlayingRef.
C35_ObservableMatchesFlag ==
  (tasks.plays = {} /\ env.mounted) => ui.isPlaying = ref.isPlaying

\* C36: at most one animation frame callback of the render loop is pending
\* at any time, whatever play() calls overlap.
C36_OneRenderChain == tasks.rafs <= 1


\* C37: a fillFrameBuffer invocation that has set fillInProgressRef is never
\* left suspended in getNextChunk for good: once the stream has ended and no
\* sample is left, no invocation is still waiting with the flag set.
C37_FillFlagCleared ==
  ~ ( /\ ref.fillInProgress
      /\ tasks.fillPc = "await"
      /\ vdemux.pendingRead
      /\ vdemux.isEOF /\ vdemux.netDone
      /\ vdemux.next >= media.n /\ Len(vdemux.readySamples) = 0 )


\* C38: a pause() issued while the player is already paused (isPlayingRef is
\* false) leaves the saved media position mediaStartTimeRef unchanged.
C38_PauseIdempotent ==
  [][ ( /\ env'.toggles = env.toggles + 1
        /\ ui.isPlaying /\ ~ref.isPlaying )
      => ref'.mediaStartTime = ref.mediaStartTime ]_vars


\* C39: a step of handleVolumeChange or toggleMute leaves the playing state,
\* the position, the frame buffer, the decoders and the demuxers as they
\* were, and runs neither the effect cleanup nor initializePlayer.
C39_VolumeLeavesPlayback ==
  [][ (env'.volumes # env.volumes \/ env'.mutes # env.mutes)
      => /\ ref'.isPlaying = ref.isPlaying /\ ui'.isPlaying = ui.isPlaying
         /\ ref'.mediaStartTime = ref.mediaStartTime
         /\ ref'.mediaTimeOffset = ref.mediaTimeOffset
         /\ ref'.frameBuffer = ref.frameBuffer
         /\ vdec' = vdec /\ adec' = adec
         /\ vdemux' = vdemux /\ ademux' = ademux
         /\ hist'.cleanupRan = hist.cleanupRan
         /\ hist'.reinits = hist.reinits ]_vars


\* C40: in the player whose fillFrameBuffer sets its own retry timer, at
\* most one retry timer is pending at any time, and no retry timer is set
\* once the demuxer is at the end of the stream with no sample left.
C40_OneRetryTimer ==
  streamPlayer.retryTimers <= 1 /\ ~streamPlayer.timerAfterEOF

====
